---- MODULE Spec2Model ----
(***************************************************************************)
(* The screening gateway.  Worklist side: the worklist_items table kept by  *)
(* MWLStorage, the action handler CreateWorklistItem, the C-FIND worklist   *)
(* query handler and the MPPS handlers N-CREATE and N-SET.  Image side:     *)
(* the stored_instances table and the blob directory kept by PACSStorage,   *)
(* the C-STORE handler, and the upload engine (UploadListener driving       *)
(* UploadProcessor).                                                        *)
(*                                                                         *)
(* Python None, SQL NULL and an absent DICOM attribute are all written     *)
(* None.  An optional dataset is a sequence of length 0 (None) or 1.       *)
(***************************************************************************)
EXTENDS Integers, Sequences, FiniteSets, TLC

VARIABLES
    worklist,   \* rows of worklist_items
    last,       \* the worklist request being answered
    instances,  \* rows of stored_instances, in insertion order
    files,      \* the blob directory: path -> <<>> or <<bytes>>
    writes,     \* number of write_bytes calls per path
    cstore,     \* the C-STORE being answered (one at a time)
    threads,    \* the request each handler thread is working on
    cfg,        \* the configuration of the upload processor
    backoff,    \* UploadProcessor._current_backoff
    batch,      \* where process_batch stands
    hist,       \* what has happened to each image so far
    listener    \* the UploadListener: its fields and where start() stands

mwlVars == <<worklist, last>>

storeVars == <<instances, files, writes>>

uploadVars == <<cfg, backoff, batch, hist, listener>>

nonMwlVars == <<storeVars, cstore, threads, uploadVars>>

vars == <<worklist, last, instances, files, writes, cstore, threads,
          cfg, backoff, batch, hist, listener>>

None == "None"

(* ---------------------------------------------------------------------- *)
(* Bounds                                                                  *)
(* ---------------------------------------------------------------------- *)

\* largest number of rows the worklist_items table is allowed to grow to
MaxItems == 2

\* largest number of write_bytes calls followed per path
MaxWrites == 2

\* largest number of raising storage calls followed in the upload engine
MaxFaults == 1

(* ---------------------------------------------------------------------- *)
(* Constants of the program                                                *)
(* ---------------------------------------------------------------------- *)

\* services/mwl/__init__.py, MWLStatus
MWLStatus ==
    [SCHEDULED |-> "SCHEDULED", IN_PROGRESS |-> "IN PROGRESS",
     COMPLETED |-> "COMPLETED", DISCONTINUED |-> "DISCONTINUED"]

\* DIMSE status codes imported from services.dicom (symbolic, pairwise distinct)
SUCCESS == "SUCCESS"
FAILURE == "FAILURE"
PENDING == "PENDING"
MISSING_ATTRIBUTE == "MISSING_ATTRIBUTE"
INVALID_ATTRIBUTE == "INVALID_ATTRIBUTE"
DUPLICATE_SOP_INSTANCE == "DUPLICATE_SOP_INSTANCE"
UNKNOWN_SOP_INSTANCE == "UNKNOWN_SOP_INSTANCE"
PROCESSING_FAILURE == "PROCESSING_FAILURE"

\* WorklistItem.status default: the INSERT of store_worklist_item leaves the
\* status column to its default
DefaultStatus == "SCHEDULED"

(* ---------------------------------------------------------------------- *)
(* Input domains                                                           *)
(* ---------------------------------------------------------------------- *)

Accessions == {"ACC1", "ACC2", "ACC3"}

MppsUids == {"1.2.1", "1.2.2"}

ActionIds == {"ACT1"}

\* The worklist_item part of a worklist.create_item payload, one per
\* accession number.  ACC2 is scheduled before ACC1; ACC3 ties with ACC1 on
\* (date, time) and shares its patient with ACC2.  The payload of ACC2 has
\* neither sex nor study description, the one of ACC3 no study description
\* (None: the key is not in the payload).
WorklistItemPayload(acc) ==
    CASE acc = "ACC1" ->
           [accession_number |-> acc, nhs_number |-> "999123456",
            name |-> "SMITH^JANE", birth_date |-> "19800101", sex |-> "F",
            modality |-> "MG", study_description |-> "MAMMOGRAPHY",
            date |-> "20240102", time |-> "090000"]
      [] acc = "ACC2" ->
           [accession_number |-> acc, nhs_number |-> "999234567",
            name |-> "JONES^MARY", birth_date |-> "19900202", sex |-> None,
            modality |-> "MG", study_description |-> None,
            date |-> "20240101", time |-> "094500"]
      [] OTHER ->
           [accession_number |-> acc, nhs_number |-> "999234567",
            name |-> "JONES^MARY", birth_date |-> "19900202", sex |-> "F",
            modality |-> "CT", study_description |-> None,
            date |-> "20240102", time |-> "090000"]

\* A payload comes with the fault met while it is handled: "parameters" when
\* its parameters entry is not a mapping, so that reading it raises,
\* "store_worklist_item" when the storage call raises.
Payloads ==
    {[action_id |-> a, worklist_item |-> WorklistItemPayload(acc), fault |-> f] :
        a \in ActionIds \cup {None, ""}, acc \in Accessions,
        f \in {"none", "parameters", "store_worklist_item"}}

\* Python truthiness of an optional string
Truthy(x) == x \notin {None, ""}

\* variant of Upper: the status is compared as sent, without upper()
Upper_AsSent(s) == s

\* str.upper() on the status strings a request can carry
Upper(s) ==
    CASE s = "in progress" -> "IN PROGRESS"
      [] s = "completed" -> "COMPLETED"
      [] OTHER -> s

\* TEXT columns compare bytewise; the texts that occur, in ascending order
SortedTexts == <<"090000", "094500", "20240101", "20240102">>

TextRank(s) == CHOOSE i \in DOMAIN SortedTexts : SortedTexts[i] = s

(* ---------------------------------------------------------------------- *)
(* MWLStorage                                                              *)
(* ---------------------------------------------------------------------- *)

\* variant of AccessionExists: the table has no key
AccessionExists_Never(wl, accession_number) == FALSE

\* accession_number is the key of worklist_items: a second INSERT of the same
\* accession number raises sqlite3.IntegrityError
AccessionExists(wl, accession_number) ==
    \E i \in DOMAIN wl : wl[i].accession_number = accession_number

\* MWLStorage.store_worklist_item
StoreWorklistItem(wl, item) ==
    IF AccessionExists(wl, item.accession_number)
    THEN [raised |-> TRUE, wl |-> wl]
    ELSE [raised |-> FALSE,
          wl |-> Append(wl,
                  [accession_number |-> item.accession_number,
                   modality |-> item.modality,
                   patient_birth_date |-> item.patient_birth_date,
                   patient_id |-> item.patient_id,
                   patient_name |-> item.patient_name,
                   patient_sex |-> item.patient_sex,
                   procedure_code |-> item.procedure_code,
                   scheduled_date |-> item.scheduled_date,
                   scheduled_time |-> item.scheduled_time,
                   source_message_id |-> item.source_message_id,
                   study_description |-> item.study_description,
                   study_instance_uid |-> item.study_instance_uid,
                   status |-> DefaultStatus,
                   mpps_instance_uid |-> None])]

\* ORDER BY scheduled_date, scheduled_time
OrderedBefore(a, b) ==
    \/ TextRank(a.scheduled_date) < TextRank(b.scheduled_date)
    \/ /\ a.scheduled_date = b.scheduled_date
       /\ TextRank(a.scheduled_time) <= TextRank(b.scheduled_time)

\* variant of FindWorklistItems: the status predicate is left out of the query
FindWorklistItems_AnyStatus(wl, modality, scheduled_date, patient_id, status) ==
    LET Match(i) ==
            /\ Truthy(modality) => wl[i].modality = modality
            /\ Truthy(scheduled_date) => wl[i].scheduled_date = scheduled_date
            /\ Truthy(patient_id) => wl[i].patient_id = patient_id
        M == {i \in DOMAIN wl : Match(i)}
        n == Cardinality(M)
        Orders == {s \in [1..n -> M] :
                     /\ \A j, k \in 1..n : j # k => s[j] # s[k]
                     /\ \A j \in 1..n : j < n => OrderedBefore(wl[s[j]], wl[s[j + 1]])}
    IN {[j \in 1..n |-> wl[s[j]]] : s \in Orders}

\* variant of FindWorklistItems: a filter is applied whenever it is not None,
\* an empty one too
FindWorklistItems_EmptyIsAFilter(wl, modality, scheduled_date, patient_id, status) ==
    LET Match(i) ==
            /\ wl[i].status = status
            /\ modality # None => wl[i].modality = modality
            /\ scheduled_date # None => wl[i].scheduled_date = scheduled_date
            /\ patient_id # None => wl[i].patient_id = patient_id
        M == {i \in DOMAIN wl : Match(i)}
        n == Cardinality(M)
        Orders == {s \in [1..n -> M] :
                     /\ \A j, k \in 1..n : j # k => s[j] # s[k]
                     /\ \A j \in 1..n : j < n => OrderedBefore(wl[s[j]], wl[s[j + 1]])}
    IN {[j \in 1..n |-> wl[s[j]]] : s \in Orders}

\* MWLStorage.find_worklist_items: the set of row lists the query may return
\* (rows with equal date and time come in an order SQL leaves open)
FindWorklistItems(wl, modality, scheduled_date, patient_id, status) ==
    LET Match(i) ==
            /\ wl[i].status = status
            /\ Truthy(modality) => wl[i].modality = modality
            /\ Truthy(scheduled_date) => wl[i].scheduled_date = scheduled_date
            /\ Truthy(patient_id) => wl[i].patient_id = patient_id
        M == {i \in DOMAIN wl : Match(i)}
        n == Cardinality(M)
        Orders == {s \in [1..n -> M] :
                     /\ \A j, k \in 1..n : j # k => s[j] # s[k]
                     /\ \A j \in 1..n : j < n => OrderedBefore(wl[s[j]], wl[s[j + 1]])}
    IN {[j \in 1..n |-> wl[s[j]]] : s \in Orders}

\* variant of MppsInstanceExists: the identifier is looked up in the
\* accession_number column
MppsInstanceExists_ByAccession(wl, mpps_instance_uid) ==
    \E i \in DOMAIN wl : wl[i].accession_number = mpps_instance_uid

\* MWLStorage.mpps_instance_exists
MppsInstanceExists(wl, mpps_instance_uid) ==
    \E i \in DOMAIN wl : wl[i].mpps_instance_uid = mpps_instance_uid

\* worklist_items schema: a step-instance identifier is unique when set, so an
\* UPDATE that would give a second row the same identifier is refused
MppsUidTaken(wl, accession_number, mpps_instance_uid) ==
    /\ mpps_instance_uid # None
    /\ \E i \in DOMAIN wl :
          /\ wl[i].accession_number # accession_number
          /\ wl[i].mpps_instance_uid = mpps_instance_uid

\* variant of UpdateStatus: the UPDATE has lost its WHERE clause
UpdateStatus_NoWhere(wl, accession_number, status, mpps_instance_uid) ==
    [raised |-> FALSE,
     wl |-> [i \in DOMAIN wl |->
               [wl[i] EXCEPT !.status = status,
                             !.mpps_instance_uid =
                                 IF mpps_instance_uid # None THEN mpps_instance_uid
                                 ELSE wl[i].mpps_instance_uid]],
     source_message_id |-> IF wl = <<>> THEN None ELSE wl[1].source_message_id]

\* MWLStorage.update_status
UpdateStatus(wl, accession_number, status, mpps_instance_uid) ==
    LET hit == {i \in DOMAIN wl : wl[i].accession_number = accession_number}
        Coalesce(i) == IF mpps_instance_uid # None THEN mpps_instance_uid
                       ELSE wl[i].mpps_instance_uid
    IN IF hit = {}
       THEN [raised |-> FALSE, wl |-> wl, source_message_id |-> None]
       ELSE IF MppsUidTaken(wl, accession_number, mpps_instance_uid)
       THEN [raised |-> TRUE, wl |-> wl, source_message_id |-> None]
       ELSE [raised |-> FALSE,
             wl |-> [i \in DOMAIN wl |->
                       IF i \in hit
                       THEN [wl[i] EXCEPT !.status = status,
                                          !.mpps_instance_uid = Coalesce(i)]
                       ELSE wl[i]],
             source_message_id |-> wl[CHOOSE i \in hit : TRUE].source_message_id]

\* MWLStorage.get_worklist_item_by_mpps_instance_uid: the row bound to the
\* step-instance identifier, as a sequence of length 0 or 1
GetWorklistItemByMppsInstanceUid(wl, mpps_instance_uid) ==
    LET hit == {i \in DOMAIN wl : /\ mpps_instance_uid # None
                                  /\ wl[i].mpps_instance_uid = mpps_instance_uid}
    IN IF hit = {} THEN <<>> ELSE <<wl[CHOOSE i \in hit : TRUE]>>

(* ---------------------------------------------------------------------- *)
(* CreateWorklistItem.call                                                 *)
(* ---------------------------------------------------------------------- *)

\* dict.get(key, default) for a key whose absence is written None
GetOr(value, default) == IF value = None THEN default ELSE value

\* str(e) for the exceptions CreateWorklistItem.call catches
MissingActionId == "Missing action_id in payload"
NotAMapping == "'NoneType' object has no attribute 'get'"
DatabaseError == "database is locked"
UniqueConstraintFailed == "UNIQUE constraint failed: worklist_items.accession_number"

\* variant of CreateWorklistItemCall: patient_id is filled from the accession
\* number instead of participant.nhs_number
CreateWorklistItemCall_WrongPatientId(wl, payload) ==
    LET action_id == payload.action_id
        Error(message, calls) ==
            [status |-> "error", action_id |-> action_id, error |-> message,
             wl |-> wl, store_calls |-> calls]
        item == payload.worklist_item
        stored == StoreWorklistItem(wl,
                    [accession_number |-> item.accession_number,
                     patient_id |-> item.accession_number,
                     patient_name |-> item.name,
                     patient_birth_date |-> item.birth_date,
                     patient_sex |-> GetOr(item.sex, ""),
                     scheduled_date |-> item.date,
                     scheduled_time |-> item.time,
                     modality |-> item.modality,
                     study_description |-> GetOr(item.study_description, ""),
                     source_message_id |-> action_id,
                     study_instance_uid |-> None,
                     procedure_code |-> None])
    IN IF ~Truthy(action_id) THEN Error(MissingActionId, 0)
       ELSE IF payload.fault = "parameters" THEN Error(NotAMapping, 0)
       ELSE IF payload.fault = "store_worklist_item" THEN Error(DatabaseError, 1)
       ELSE IF stored.raised THEN Error(UniqueConstraintFailed, 1)
       ELSE [status |-> "created", action_id |-> action_id, error |-> None,
             wl |-> stored.wl, store_calls |-> 1]

\* variant of CreateWorklistItemCall: the action_id is not checked
CreateWorklistItemCall_NoActionCheck(wl, payload) ==
    LET action_id == payload.action_id
        Error(message, calls) ==
            [status |-> "error", action_id |-> action_id, error |-> message,
             wl |-> wl, store_calls |-> calls]
        item == payload.worklist_item
        stored == StoreWorklistItem(wl,
                    [accession_number |-> item.accession_number,
                     patient_id |-> item.nhs_number,
                     patient_name |-> item.name,
                     patient_birth_date |-> item.birth_date,
                     patient_sex |-> GetOr(item.sex, ""),
                     scheduled_date |-> item.date,
                     scheduled_time |-> item.time,
                     modality |-> item.modality,
                     study_description |-> GetOr(item.study_description, ""),
                     source_message_id |-> action_id,
                     study_instance_uid |-> None,
                     procedure_code |-> None])
    IN IF payload.fault = "parameters" THEN Error(NotAMapping, 0)
       ELSE IF payload.fault = "store_worklist_item" THEN Error(DatabaseError, 1)
       ELSE IF stored.raised THEN Error(UniqueConstraintFailed, 1)
       ELSE [status |-> "created", action_id |-> action_id, error |-> None,
             wl |-> stored.wl, store_calls |-> 1]

\* CreateWorklistItem.call: the response it returns (error is None when the
\* response has no error entry), the table afterwards and the number of
\* store_worklist_item calls it made.  Every exception of the try block is
\* caught, and the handler only reads action_id, which is bound by the first
\* statement.
CreateWorklistItemCall(wl, payload) ==
    LET action_id == payload.action_id
        Error(message, calls) ==
            [status |-> "error", action_id |-> action_id, error |-> message,
             wl |-> wl, store_calls |-> calls]
        item == payload.worklist_item
        stored == StoreWorklistItem(wl,
                    [accession_number |-> item.accession_number,
                     patient_id |-> item.nhs_number,
                     patient_name |-> item.name,
                     patient_birth_date |-> item.birth_date,
                     patient_sex |-> GetOr(item.sex, ""),
                     scheduled_date |-> item.date,
                     scheduled_time |-> item.time,
                     modality |-> item.modality,
                     study_description |-> GetOr(item.study_description, ""),
                     source_message_id |-> action_id,
                     study_instance_uid |-> None,
                     procedure_code |-> None])
    IN IF ~Truthy(action_id) THEN Error(MissingActionId, 0)
       ELSE IF payload.fault = "parameters" THEN Error(NotAMapping, 0)
       ELSE IF payload.fault = "store_worklist_item" THEN Error(DatabaseError, 1)
       ELSE IF stored.raised THEN Error(UniqueConstraintFailed, 1)
       ELSE [status |-> "created", action_id |-> action_id, error |-> None,
             wl |-> stored.wl, store_calls |-> 1]

(* ---------------------------------------------------------------------- *)
(* CFindHandler                                                            *)
(* ---------------------------------------------------------------------- *)

\* C-FIND identifiers: PatientID at the top level, Modality and start date in
\* the first item of ScheduledProcedureStepSequence (<<>> when absent)
Identifiers ==
    {[PatientID |-> p, ScheduledProcedureStepSequence |-> s] :
        p \in {None, "999123456", "999234567"},
        s \in {<<>>} \cup
              {<<[Modality |-> m, ScheduledProcedureStepStartDate |-> d]>> :
                  m \in {None, "MG", "CT"}, d \in {None, "20240101", "20240102"}}}

\* CFindHandler._get_query_value
GetQueryValue(ds, item_tag) ==
    LET sequence == ds.ScheduledProcedureStepSequence
    IN IF Len(sequence) > 0
       THEN (IF sequence[1][item_tag] = None THEN "" ELSE sequence[1][item_tag])
       ELSE ""

\* an element the response dataset does not have; an element that is there
\* with no value holds None or ""
Absent == "Absent"

\* item.keys(): the columns find_worklist_items selects
RowKeys ==
    {"accession_number", "modality", "patient_birth_date", "patient_id",
     "patient_name", "patient_sex", "procedure_code", "scheduled_date",
     "scheduled_time", "source_message_id", "study_description",
     "study_instance_uid", "status", "mpps_instance_uid"}

\* CFindHandler._build_worklist_response: an optional element is set when
\* its column is among the keys of the row, whatever the value
BuildWorklistResponse(item) ==
    LET Optional(key) == IF key \in RowKeys THEN item[key] ELSE Absent
    IN [PatientID |-> item.patient_id,
        PatientName |-> item.patient_name,
        PatientBirthDate |-> item.patient_birth_date,
        PatientSex |-> Optional("patient_sex"),
        AccessionNumber |-> item.accession_number,
        StudyInstanceUID |-> Optional("study_instance_uid"),
        StudyDescription |-> Optional("study_description"),
        RequestedProcedureID |-> Optional("procedure_code"),
        ScheduledProcedureStepSequence |->
           <<[ScheduledProcedureStepDescription |-> Optional("study_description"),
              ScheduledProcedureStepID |-> Optional("procedure_code"),
              ScheduledProcedureStepStartDate |-> item.scheduled_date,
              ScheduledProcedureStepStartTime |-> item.scheduled_time,
              Modality |-> item.modality]>>]

\* variant of CFindYield: the loop skips the first item
CFindYield_SkipsFirst(items, failAt) ==
    IF failAt = 0
    THEN IF items = <<>> THEN <<[status |-> SUCCESS, ds |-> <<>>]>>
         ELSE [j \in 1..Len(items) |->
                 IF j < Len(items)
                 THEN [status |-> PENDING,
                       ds |-> <<BuildWorklistResponse(items[j + 1])>>]
                 ELSE [status |-> SUCCESS, ds |-> <<>>]]
    ELSE [j \in 1..failAt |->
            IF j < failAt
            THEN [status |-> PENDING, ds |-> <<BuildWorklistResponse(items[j])>>]
            ELSE [status |-> FAILURE, ds |-> <<>>]]

\* variant of CFindYield: the except clause yields SUCCESS
CFindYield_ExceptYieldsSuccess(items, failAt) ==
    IF failAt = 0
    THEN [j \in 1..(Len(items) + 1) |->
            IF j <= Len(items)
            THEN [status |-> PENDING, ds |-> <<BuildWorklistResponse(items[j])>>]
            ELSE [status |-> SUCCESS, ds |-> <<>>]]
    ELSE [j \in 1..failAt |->
            IF j < failAt
            THEN [status |-> PENDING, ds |-> <<BuildWorklistResponse(items[j])>>]
            ELSE [status |-> SUCCESS, ds |-> <<>>]]

\* what the generator of CFindHandler.call yields once the items are known;
\* failAt = k > 0: building the k-th response raises
CFindYield(items, failAt) ==
    IF failAt = 0
    THEN [j \in 1..(Len(items) + 1) |->
            IF j <= Len(items)
            THEN [status |-> PENDING, ds |-> <<BuildWorklistResponse(items[j])>>]
            ELSE [status |-> SUCCESS, ds |-> <<>>]]
    ELSE [j \in 1..failAt |->
            IF j < failAt
            THEN [status |-> PENDING, ds |-> <<BuildWorklistResponse(items[j])>>]
            ELSE [status |-> FAILURE, ds |-> <<>>]]

\* CFindHandler.call: the response sequences the handler can produce.
\* fault = "identifier": decoding event.identifier raises, which happens
\* before the try block, so the generator ends with the exception and has
\* yielded nothing; fault = "find": find_worklist_items raises;
\* fault = "build": building one of the responses raises.
CFindCall(wl, identifier, fault) ==
    LET query_modality == GetQueryValue(identifier, "Modality")
        query_date == GetQueryValue(identifier, "ScheduledProcedureStepStartDate")
        query_patient_id == IF identifier.PatientID = None THEN ""
                            ELSE identifier.PatientID
        found == FindWorklistItems(wl,
                    IF Truthy(query_modality) THEN query_modality ELSE None,
                    IF Truthy(query_date) THEN query_date ELSE None,
                    IF Truthy(query_patient_id) THEN query_patient_id ELSE None,
                    "SCHEDULED")
    IN IF fault = "identifier"
       THEN {[items |-> <<>>, responses |-> <<>>, raised |-> TRUE]}
       ELSE IF fault = "find"
       THEN {[items |-> <<>>, responses |-> <<[status |-> FAILURE, ds |-> <<>>]>>,
              raised |-> FALSE]}
       ELSE IF fault = "build"
       THEN UNION {{[items |-> items, responses |-> CFindYield(items, k),
                     raised |-> FALSE] :
                       k \in 1..Len(items)} : items \in found}
       ELSE {[items |-> items, responses |-> CFindYield(items, 0),
              raised |-> FALSE] : items \in found}

(* ---------------------------------------------------------------------- *)
(* NCreate.call                                                            *)
(* ---------------------------------------------------------------------- *)

\* N-CREATE events: the AffectedSOPInstanceUID of the request and the
\* attribute list, which may carry a SOPInstanceUID element of its own.
\* fault names the storage call that raises, if any.
NCreateEvents ==
    {[AffectedSOPInstanceUID |-> u,
      attribute_list |-> [PerformedProcedureStepStatus |-> st,
                          SOPInstanceUID |-> au,
                          ScheduledStepAttributesSequence |-> sq],
      fault |-> f] :
        u \in MppsUids \cup {None},
        st \in {None, "in progress", "IN PROGRESS", "COMPLETED"},
        au \in MppsUids \cup {None},
        sq \in {<<>>} \cup {<<[AccessionNumber |-> a]>> : a \in Accessions \cup {None}},
        f \in {"none", "mpps_instance_exists", "update_status"}}

\* ds.update(attr_list) on the response dataset that already holds
\* SOPInstanceUID = AffectedSOPInstanceUID
MergedDataset(sop_instance_uid, attr_list) ==
    [SOPInstanceUID |-> IF attr_list.SOPInstanceUID # None
                        THEN attr_list.SOPInstanceUID
                        ELSE sop_instance_uid,
     PerformedProcedureStepStatus |-> attr_list.PerformedProcedureStepStatus]

\* NCreate.call
NCreateCall(wl, event) ==
    LET affected_sop_instance_uid == event.AffectedSOPInstanceUID
        attr_list == event.attribute_list
        status == attr_list.PerformedProcedureStepStatus
        ds == MergedDataset(affected_sop_instance_uid, attr_list)
        scheduled_step_sequence == attr_list.ScheduledStepAttributesSequence
        accession_number == scheduled_step_sequence[1].AccessionNumber
        updated == UpdateStatus(wl, accession_number, MWLStatus.IN_PROGRESS,
                                ds.SOPInstanceUID)
        Reject(code) == [status |-> code, ds |-> <<>>, wl |-> wl]
    IN IF affected_sop_instance_uid = None THEN Reject(INVALID_ATTRIBUTE)
       ELSE IF event.fault = "mpps_instance_exists" THEN Reject(PROCESSING_FAILURE)
       ELSE IF MppsInstanceExists(wl, affected_sop_instance_uid)
       THEN Reject(DUPLICATE_SOP_INSTANCE)
       ELSE IF ~Truthy(status) THEN Reject(MISSING_ATTRIBUTE)
       ELSE IF Upper(status) # MWLStatus.IN_PROGRESS THEN Reject(INVALID_ATTRIBUTE)
       ELSE IF Len(scheduled_step_sequence) = 0 THEN Reject(MISSING_ATTRIBUTE)
       ELSE IF ~Truthy(accession_number) THEN Reject(MISSING_ATTRIBUTE)
       ELSE IF event.fault = "update_status" \/ updated.raised
       THEN Reject(PROCESSING_FAILURE)
       ELSE [status |-> SUCCESS, ds |-> <<ds>>, wl |-> updated.wl]

(* ---------------------------------------------------------------------- *)
(* NSet.call                                                               *)
(* ---------------------------------------------------------------------- *)

\* N-SET events: the RequestedSOPInstanceUID of the request and the
\* modification list, which may carry a SOPInstanceUID element of its own.
\* fault names the storage call that raises, if any.
NSetEvents ==
    {[RequestedSOPInstanceUID |-> u,
      attribute_list |-> [PerformedProcedureStepStatus |-> st,
                          SOPInstanceUID |-> au],
      fault |-> f] :
        u \in MppsUids \cup {None},
        st \in {None, "COMPLETED", "DISCONTINUED", "IN PROGRESS", "completed"},
        au \in MppsUids \cup {None},
        f \in {"none", "get_worklist_item_by_mpps_instance_uid", "update_status"}}

\* variant of NSetCall: any status that is present is accepted
NSetCall_AnyStatus(wl, event) ==
    LET requested_sop_instance_uid == event.RequestedSOPInstanceUID
        mod_list == event.attribute_list
        status == mod_list.PerformedProcedureStepStatus
        worklist_item == GetWorklistItemByMppsInstanceUid(wl, requested_sop_instance_uid)
        accession_number == worklist_item[1].accession_number
        updated == UpdateStatus(wl, accession_number, status, None)
        Reject(code) == [status |-> code, ds |-> <<>>, wl |-> wl]
    IN IF ~Truthy(status) THEN Reject(MISSING_ATTRIBUTE)
       ELSE IF event.fault = "get_worklist_item_by_mpps_instance_uid"
       THEN Reject(PROCESSING_FAILURE)
       ELSE IF worklist_item = <<>> THEN Reject(UNKNOWN_SOP_INSTANCE)
       ELSE IF event.fault = "update_status" \/ updated.raised
       THEN Reject(PROCESSING_FAILURE)
       ELSE IF Truthy(updated.source_message_id)
       THEN [status |-> SUCCESS,
             ds |-> <<MergedDataset(requested_sop_instance_uid, mod_list)>>,
             wl |-> updated.wl]
       ELSE [status |-> PROCESSING_FAILURE, ds |-> <<>>, wl |-> updated.wl]

\* variant of NSetCall: the status is compared ignoring case
NSetCall_IgnoresCase(wl, event) ==
    LET requested_sop_instance_uid == event.RequestedSOPInstanceUID
        mod_list == event.attribute_list
        status == mod_list.PerformedProcedureStepStatus
        worklist_item == GetWorklistItemByMppsInstanceUid(wl, requested_sop_instance_uid)
        accession_number == worklist_item[1].accession_number
        updated == UpdateStatus(wl, accession_number, status, None)
        Reject(code) == [status |-> code, ds |-> <<>>, wl |-> wl]
    IN IF ~Truthy(status) THEN Reject(MISSING_ATTRIBUTE)
       ELSE IF Upper(status) \notin {MWLStatus.COMPLETED, MWLStatus.DISCONTINUED}
       THEN Reject(INVALID_ATTRIBUTE)
       ELSE IF event.fault = "get_worklist_item_by_mpps_instance_uid"
       THEN Reject(PROCESSING_FAILURE)
       ELSE IF worklist_item = <<>> THEN Reject(UNKNOWN_SOP_INSTANCE)
       ELSE IF event.fault = "update_status" \/ updated.raised
       THEN Reject(PROCESSING_FAILURE)
       ELSE IF Truthy(updated.source_message_id)
       THEN [status |-> SUCCESS,
             ds |-> <<MergedDataset(requested_sop_instance_uid, mod_list)>>,
             wl |-> updated.wl]
       ELSE [status |-> PROCESSING_FAILURE, ds |-> <<>>, wl |-> updated.wl]

\* NSet.call
NSetCall(wl, event) ==
    LET requested_sop_instance_uid == event.RequestedSOPInstanceUID
        mod_list == event.attribute_list
        status == mod_list.PerformedProcedureStepStatus
        worklist_item == GetWorklistItemByMppsInstanceUid(wl, requested_sop_instance_uid)
        accession_number == worklist_item[1].accession_number
        updated == UpdateStatus(wl, accession_number, status, None)
        Reject(code) == [status |-> code, ds |-> <<>>, wl |-> wl]
    IN IF ~Truthy(status) THEN Reject(MISSING_ATTRIBUTE)
       ELSE IF status \notin {MWLStatus.COMPLETED, MWLStatus.DISCONTINUED}
       THEN Reject(INVALID_ATTRIBUTE)
       ELSE IF event.fault = "get_worklist_item_by_mpps_instance_uid"
       THEN Reject(PROCESSING_FAILURE)
       ELSE IF worklist_item = <<>> THEN Reject(UNKNOWN_SOP_INSTANCE)
       ELSE IF event.fault = "update_status" \/ updated.raised
       THEN Reject(PROCESSING_FAILURE)
       ELSE IF Truthy(updated.source_message_id)
       THEN [status |-> SUCCESS,
             ds |-> <<MergedDataset(requested_sop_instance_uid, mod_list)>>,
             wl |-> updated.wl]
       ELSE [status |-> PROCESSING_FAILURE, ds |-> <<>>, wl |-> updated.wl]

(* ---------------------------------------------------------------------- *)
(* PACSStorage: the stored_instances table and the blob directory          *)
(* ---------------------------------------------------------------------- *)

\* instance identifiers the modalities send
SopUids == {"1.2.3.1", "1.2.3.2"}

\* PACSStorage._compute_storage_path: the SHA-256 hex digest of the
\* identifier laid out as hex[:2]/hex[2:4]/hex[:16].dcm
ComputeStoragePath(sop_instance_uid) ==
    CASE sop_instance_uid = "1.2.3.1" -> "49/74/4974ae191ce3ec78.dcm"
      [] sop_instance_uid = "1.2.3.2" -> "86/5c/865c8b72575ed716.dcm"

\* the paths of the blob directory; a path holds <<>> (no file) or <<bytes>>
StoragePaths == {ComputeStoragePath(u) : u \in SopUids}

\* hashlib.sha256(file_data).hexdigest(): a digest that tells contents apart
Sha256(file_data) == [sha256 |-> file_data.body]

\* DicomValidator.PREAMBLE_LENGTH
PREAMBLE_LENGTH == 128

\* DicomValidator.DICOM_PREFIX
DICOM_PREFIX == "DICM"

\* len(DicomValidator.DICOM_PREFIX)
PrefixLength == 4

\* services/dicom/upload status values of stored_instances.upload_status
UploadStatus ==
    [PENDING |-> "PENDING", UPLOADING |-> "UPLOADING",
     COMPLETE |-> "COMPLETE", FAILED |-> "FAILED"]

\* created_at of the newest row, 0 for an empty table
NewestCreatedAt(rows) ==
    IF rows = <<>> THEN 0
    ELSE CHOOSE t \in {rows[i].created_at : i \in DOMAIN rows} :
            \A i \in DOMAIN rows : rows[i].created_at <= t

\* CURRENT_TIMESTAMP at an insert: one-second resolution, so a row can get
\* the created_at of the row before it or a later one
Timestamps(rows) ==
    IF rows = <<>> THEN {1}
    ELSE {NewestCreatedAt(rows), NewestCreatedAt(rows) + 1}

\* variant of InstanceExists: the query finds no row
InstanceExists_Never(rows, sop_instance_uid) == FALSE

\* PACSStorage.instance_exists
InstanceExists(rows, sop_instance_uid) ==
    \E i \in DOMAIN rows : /\ rows[i].sop_instance_uid = sop_instance_uid
                           /\ rows[i].status = "STORED"

\* PACSStorage.store_file: the blob directory after write_bytes and the
\* tuple (rel_path, file_size, storage_hash) it returns
StoreFile(fs, sop_instance_uid, file_data) ==
    LET rel_path == ComputeStoragePath(sop_instance_uid)
    IN [files |-> [fs EXCEPT ![rel_path] = <<file_data>>],
        rel_path |-> rel_path,
        file_size |-> file_data.length,
        storage_hash |-> Sha256(file_data)]

\* the row store_instance inserts: the values it binds, status 'STORED', and
\* the defaults of the schema for the upload columns
InstanceRow(sop_instance_uid, stored, metadata, source_aet, now) ==
    [sop_instance_uid |-> sop_instance_uid,
     storage_path |-> stored.rel_path,
     file_size |-> stored.file_size,
     storage_hash |-> stored.storage_hash,
     patient_id |-> metadata.patient_id,
     patient_name |-> metadata.patient_name,
     accession_number |-> metadata.accession_number,
     source_aet |-> source_aet,
     status |-> "STORED",
     upload_status |-> UploadStatus.PENDING,
     upload_attempt_count |-> 0,
     upload_error |-> <<>>,
     created_at |-> now]

\* the INSERT of store_instance: sop_instance_uid is the primary key of
\* stored_instances, upload_status and upload_attempt_count take the
\* defaults of the schema
InsertInstance(rows, row) ==
    IF \E i \in DOMAIN rows : rows[i].sop_instance_uid = row.sop_instance_uid
    THEN [raised |-> TRUE, rows |-> rows]
    ELSE [raised |-> FALSE, rows |-> Append(rows, row)]

\* the three storage steps of store_instance a fault can be injected in
StoreFaults == {"none", "instance_exists", "store_file", "insert"}

\* PACSStorage.store_instance.  outcome is "stored" when it returns,
\* "exists" when it raises InstanceExistsError, "error" when it raises
\* anything else; wrote tells whether write_bytes ran.
StoreInstance(rows, fs, sop_instance_uid, file_data, metadata, source_aet, now, fault) ==
    LET stored == StoreFile(fs, sop_instance_uid, file_data)
        row == InstanceRow(sop_instance_uid, stored, metadata, source_aet, now)
        inserted == InsertInstance(rows, row)
    IN IF fault = "instance_exists"
       THEN [outcome |-> "error", rows |-> rows, files |-> fs, wrote |-> FALSE]
       ELSE IF InstanceExists(rows, sop_instance_uid)
       THEN [outcome |-> "exists", rows |-> rows, files |-> fs, wrote |-> FALSE]
       ELSE IF fault = "store_file"
       THEN [outcome |-> "error", rows |-> rows, files |-> fs, wrote |-> FALSE]
       ELSE IF fault = "insert" \/ inserted.raised
       THEN [outcome |-> "error", rows |-> rows, files |-> stored.files,
             wrote |-> TRUE]
       ELSE [outcome |-> "stored", rows |-> inserted.rows,
             files |-> stored.files, wrote |-> TRUE]

(* ---------------------------------------------------------------------- *)
(* DicomValidator and CStore.call                                          *)
(* ---------------------------------------------------------------------- *)

\* CStore.VALID_SOP_CLASSES
VALID_SOP_CLASSES ==
    {"DigitalMammographyXRayImageStorageForPresentation",
     "DigitalMammographyXRayImageStorageForProcessing"}

\* DicomValidator.REQUIRED_TAGS
REQUIRED_TAGS == {"SOPInstanceUID", "PatientID", "StudyInstanceUID", "SOPClassUID"}

\* required_image_tags of DicomValidator.validate_pixel_data
RequiredImageTags == {"Rows", "Columns", "BitsAllocated"}

\* variant of ValidateDataset: only the two identifiers are required
ValidateDataset_IdsOnly(ds) ==
    \A tag \in {"SOPInstanceUID", "PatientID"} : Truthy(ds[tag])

\* DicomValidator.validate_dataset: TRUE when it returns, FALSE when it
\* raises DicomValidationError
ValidateDataset(ds) == \A tag \in REQUIRED_TAGS : Truthy(ds[tag])

\* DicomValidator.validate_pixel_data: TRUE when it returns; image_tags is
\* the set of image-shape elements the dataset has
ValidatePixelData(ds) ==
    ds.PixelData = None \/ RequiredImageTags \subseteq ds.image_tags

\* DicomValidator.validate_bytes: TRUE when it returns
ValidateBytes(data) ==
    /\ data.length >= PREAMBLE_LENGTH + PrefixLength
    /\ data.prefix = DICOM_PREFIX

\* what the writer can hand back for a dataset: a file with preamble and
\* prefix, a truncated one, or one with another marker after the preamble
WireForms == {"file", "truncated", "other_prefix"}

\* compressor.compress followed by CStore.dataset_to_bytes: the serialized
\* bytes carry the elements of the dataset
DatasetToBytes(ds, wire) ==
    [length |-> IF wire = "truncated" THEN PREAMBLE_LENGTH
                ELSE PREAMBLE_LENGTH + PrefixLength + 1,
     prefix |-> IF wire = "file" THEN DICOM_PREFIX ELSE "XXXX",
     body |-> <<ds.SOPInstanceUID, ds.PatientID, ds.AccessionNumber>>]

\* the gates of CStore.call before store_instance is reached, in the order
\* of the code; 0 when every gate passes
FailedGate(event) ==
    LET ds == event.dataset
    IN IF event.file_meta.MediaStorageSOPClassUID \notin VALID_SOP_CLASSES THEN 1
       ELSE IF ~Truthy(ds.SOPInstanceUID) THEN 2
       ELSE IF ~Truthy(ds.PatientID) THEN 3
       ELSE IF ~ValidateDataset(ds) \/ ~ValidatePixelData(ds) THEN 4
       ELSE IF ~ValidateBytes(DatasetToBytes(ds, event.wire)) THEN 7
       ELSE 0

\* the datasets a modality sends with C-STORE; a dataset without pixel data
\* has no image-shape elements to vary
StoreDatasets ==
    UNION {{[SOPInstanceUID |-> u, PatientID |-> p, StudyInstanceUID |-> s,
             SOPClassUID |-> c, AccessionNumber |-> a,
             PatientName |-> "SMITH^JANE", PixelData |-> px,
             image_tags |-> tags] :
               u \in SopUids \cup {None, ""},
               p \in {None, "999123456"},
               s \in {None, "1.2.3"},
               c \in {None, "DigitalMammographyXRayImageStorageForPresentation"},
               a \in {None, "ACC1"},
               tags \in IF px = None THEN {RequiredImageTags}
                        ELSE {RequiredImageTags} \cup
                             {RequiredImageTags \ {t} : t \in RequiredImageTags}} :
           px \in {None, "pixels"}}

\* a C-STORE event: the dataset, its file meta, the requestor, what the
\* writer produces for the dataset and the storage step that raises, if any
StoreEvent(ds, sop_class, wire, fault) ==
    [dataset |-> ds, file_meta |-> [MediaStorageSOPClassUID |-> sop_class],
     ae_title |-> "MODALITY", wire |-> wire, fault |-> fault]

\* C-STORE events.  A writer outcome only shows once gate 4 is passed, a
\* storage fault once gate 7 is passed.
StoreEvents ==
    UNION {LET plain == StoreEvent(ds, sop_class, "file", "none")
           IN IF FailedGate(plain) # 0 THEN {plain}
              ELSE {StoreEvent(ds, sop_class, wire, "none") : wire \in WireForms}
                   \cup {StoreEvent(ds, sop_class, "file", fault) :
                            fault \in StoreFaults} :
             ds \in StoreDatasets,
             sop_class \in VALID_SOP_CLASSES \cup {"CTImageStorage", None}}

\* CStore.call
CStoreCall(rows, fs, event, now) ==
    LET ds == event.dataset
        sop_instance_uid == IF ds.SOPInstanceUID = None THEN "" ELSE ds.SOPInstanceUID
        patient_id == ds.PatientID
        accession_number == IF ds.AccessionNumber = None THEN "" ELSE ds.AccessionNumber
        patient_name == ds.PatientName
        dicom_bytes == DatasetToBytes(ds, event.wire)
        r == StoreInstance(rows, fs, sop_instance_uid, dicom_bytes,
                           [accession_number |-> accession_number,
                            patient_id |-> patient_id,
                            patient_name |-> patient_name],
                           event.ae_title, now, event.fault)
        Fail == [status |-> FAILURE, rows |-> rows, files |-> fs, wrote |-> FALSE]
    IN IF FailedGate(event) # 0 THEN Fail
       ELSE [status |-> IF r.outcome \in {"stored", "exists"} THEN SUCCESS ELSE FAILURE,
             rows |-> r.rows, files |-> r.files, wrote |-> r.wrote]

(* ---------------------------------------------------------------------- *)
(* PACSStorage: the upload columns of stored_instances                     *)
(* ---------------------------------------------------------------------- *)

\* the columns get_pending_uploads selects
PendingColumns(row) ==
    [sop_instance_uid |-> row.sop_instance_uid,
     storage_path |-> row.storage_path,
     accession_number |-> row.accession_number,
     file_size |-> row.file_size,
     upload_attempt_count |-> row.upload_attempt_count]

\* PACSStorage.get_pending_uploads: the set of lists the query may return
\* (rows with equal created_at come in an order SQL leaves open)
GetPendingUploads(rows, limit, max_retries) ==
    LET Match(i) == /\ rows[i].upload_status = UploadStatus.PENDING
                    /\ rows[i].status = "STORED"
                    /\ rows[i].upload_attempt_count < max_retries
        hit == {i \in DOMAIN rows : Match(i)}
        n == IF Cardinality(hit) < limit THEN Cardinality(hit) ELSE limit
        Orders == {s \in [1..n -> hit] :
                     /\ \A j, k \in 1..n : j # k => s[j] # s[k]
                     /\ \A j, k \in 1..n :
                           j < k => rows[s[j]].created_at <= rows[s[k]].created_at
                     /\ \A j \in 1..n : \A i \in hit \ {s[k] : k \in 1..n} :
                           rows[s[j]].created_at <= rows[i].created_at}
    IN {[j \in 1..n |-> PendingColumns(rows[s[j]])] : s \in Orders}

\* variant of MarkUploadStarted: the attempt counter goes up by two
MarkUploadStarted_CountsTwice(rows, sop_instance_uid) ==
    [i \in DOMAIN rows |->
        IF rows[i].sop_instance_uid = sop_instance_uid
        THEN [rows[i] EXCEPT !.upload_status = UploadStatus.UPLOADING,
                             !.upload_attempt_count = @ + 2]
        ELSE rows[i]]

\* variant of MarkUploadStarted: the attempt counter is left alone
MarkUploadStarted_NoCount(rows, sop_instance_uid) ==
    [i \in DOMAIN rows |->
        IF rows[i].sop_instance_uid = sop_instance_uid
        THEN [rows[i] EXCEPT !.upload_status = UploadStatus.UPLOADING]
        ELSE rows[i]]

\* PACSStorage.mark_upload_started
MarkUploadStarted(rows, sop_instance_uid) ==
    [i \in DOMAIN rows |->
        IF rows[i].sop_instance_uid = sop_instance_uid
        THEN [rows[i] EXCEPT !.upload_status = UploadStatus.UPLOADING,
                             !.upload_attempt_count = @ + 1]
        ELSE rows[i]]

\* PACSStorage.mark_upload_complete
MarkUploadComplete(rows, sop_instance_uid) ==
    [i \in DOMAIN rows |->
        IF rows[i].sop_instance_uid = sop_instance_uid
        THEN [rows[i] EXCEPT !.upload_status = UploadStatus.COMPLETE,
                             !.upload_error = <<>>]
        ELSE rows[i]]

\* the length error[:500] keeps
ErrorLimit == 500

\* error[:500] of mark_upload_failed; an error text is its wording and its
\* length
Truncated(error) ==
    [error EXCEPT !.length = IF @ > ErrorLimit THEN ErrorLimit ELSE @]

\* PACSStorage.mark_upload_failed
MarkUploadFailed(rows, sop_instance_uid, error, permanent) ==
    LET status == IF permanent THEN UploadStatus.FAILED ELSE UploadStatus.PENDING
    IN [i \in DOMAIN rows |->
          IF rows[i].sop_instance_uid = sop_instance_uid
          THEN [rows[i] EXCEPT !.upload_status = status,
                               !.upload_error = <<Truncated(error)>>]
          ELSE rows[i]]

\* MWLStorage.get_source_message_id
GetSourceMessageId(wl, accession_number) ==
    LET hit == {i \in DOMAIN wl : wl[i].accession_number = accession_number}
    IN IF hit = {} THEN None
       ELSE LET row == wl[CHOOSE i \in hit : TRUE]
            IN IF Truthy(row.source_message_id) THEN row.source_message_id
               ELSE None

(* ---------------------------------------------------------------------- *)
(* UploadProcessor                                                         *)
(* ---------------------------------------------------------------------- *)

\* configurations of the processor: max_retries, initial_backoff,
\* max_backoff, backoff_multiplier and the batch limit of the listener
Configurations ==
    {[max_retries |-> m, initial_backoff |-> b[1], backoff_multiplier |-> b[2],
      max_backoff |-> b[3], limit |-> l] :
        m \in {1, 2},
        b \in {<<1, 2, 3>>, <<0, 2, 3>>, <<2, 1, 4>>, <<3, 2, 2>>},
        l \in {1, 2}}

\* UploadProcessor._reset_backoff
ResetBackoff(current_backoff) == 0

\* variant of IncreaseBackoff: the product is not capped
IncreaseBackoff_NoCap(current_backoff, config) ==
    IF current_backoff = 0
    THEN config.initial_backoff
    ELSE current_backoff * config.backoff_multiplier

\* UploadProcessor._increase_backoff
IncreaseBackoff(current_backoff, config) ==
    IF current_backoff = 0
    THEN config.initial_backoff
    ELSE IF current_backoff * config.backoff_multiplier < config.max_backoff
         THEN current_backoff * config.backoff_multiplier
         ELSE config.max_backoff

\* variant of Permanent: the flag is set one attempt later
Permanent_OneLater(attempt_count, config) == attempt_count > config.max_retries

\* the permanent flag of UploadProcessor._mark_failed
Permanent(attempt_count, config) == attempt_count >= config.max_retries

\* the error texts of upload_instance, with their lengths; the text of an
\* exception is as long as whoever raised it made it
NotFoundError == [text |-> "DICOM file not found", length |-> 60]
FailureStatusError == [text |-> "Upload returned failure status", length |-> 30]
UnexpectedError(message_length) ==
    [text |-> "Unexpected error", length |-> 18 + message_length]

\* lengths of the exception messages raised inside upload_instance
MessageLengths == {10, 600}

(* ---------------------------------------------------------------------- *)
(* Initial values                                                          *)
(* ---------------------------------------------------------------------- *)

\* the blob directory of a new PACSStorage
NoFiles == [p \in StoragePaths |-> <<>>]

NoWrites == [p \in StoragePaths |-> 0]

\* no C-STORE is being answered
StoreIdle ==
    [op |-> "Idle", req |-> <<>>, status |-> None, wrote |-> FALSE,
     pre_rows |-> <<>>, pre_files |-> NoFiles, pre_writes |-> NoWrites]

\* the handler threads of the PACS server
Threads == {1, 2}

\* a thread waiting for a request
ThreadIdle ==
    [pc |-> "idle", sop_instance_uid |-> None, file_data |-> <<>>,
     metadata |-> <<>>, source_aet |-> None, present |-> FALSE,
     wrote |-> FALSE, status |-> None]

\* the listener between two cycles; what the cycle before it did is kept:
\* how process_batch ended, the backoff it started from, the size of its
\* batch, the number of upload_instance calls and of successes
Sleeping(outcome, prev_backoff, pending, attempted, successes) ==
    [pc |-> "sleep", pending |-> pending, idx |-> 0, successes |-> successes,
     in_except |-> FALSE, error |-> <<>>, dicom_bytes |-> <<>>,
     action_id |-> None, prev_backoff |-> prev_backoff,
     outcome |-> outcome, attempted |-> attempted]

\* nothing has happened to any image
NoHistory ==
    [image |-> [u \in SopUids |->
                  [remote_calls |-> 0, acks |-> 0, failures |-> 0,
                   successes |-> 0, store_fault |-> FALSE]],
     faults |-> 0]

\* the default of batch_size in UploadListener.__init__
DefaultBatchSize == 10

\* the default of poll_interval in UploadListener.__init__
DefaultPollInterval == 2

\* UploadListener.__init__: a listener that has not been started.  limit
\* is the limit of the last process_batch call and sleep_time the length
\* of the last sleep (0 and -1: none yet).
NotStarted(batch_size) ==
    [running |-> FALSE, pc |-> "init", poll_interval |-> DefaultPollInterval,
     batch_size |-> batch_size, limit |-> 0, sleep_time |-> -1]

\* UploadProcessor.__init__ as upload_main calls it
DefaultConfiguration ==
    [max_retries |-> 3, initial_backoff |-> 1, backoff_multiplier |-> 2,
     max_backoff |-> 60, limit |-> 10]

(* ---------------------------------------------------------------------- *)
(* The state machine                                                       *)
(* ---------------------------------------------------------------------- *)

\* last: the request being answered, its outcome (status, and in ds the
\* dataset or the rest of the response object; raised when an exception
\* left the handler instead), and the table before it;
\* Idle when the listeners wait for the next request
Idle ==
    [op |-> "Idle", req |-> None, status |-> None, ds |-> <<>>,
     items |-> <<>>, responses |-> <<>>, pre |-> <<>>, raised |-> FALSE]

Init ==
    /\ worklist = <<>>
    /\ last = Idle
    /\ instances = <<>>
    /\ files = NoFiles
    /\ writes = NoWrites
    /\ cstore = StoreIdle
    /\ threads = [t \in Threads |-> ThreadIdle]
    /\ cfg = DefaultConfiguration
    /\ backoff = 0
    /\ batch = Sleeping("none", 0, <<>>, 0, 0)
    /\ hist = NoHistory
    /\ listener = NotStarted(DefaultBatchSize)

\* an action arrives from the relay or the service bus
Create ==
    /\ last = Idle
    /\ \E payload \in Payloads :
        LET r == CreateWorklistItemCall(worklist, payload)
        IN /\ last = Idle
           /\ Len(r.wl) <= MaxItems
           /\ worklist' = r.wl
           /\ last' = [op |-> "Create", req |-> payload, status |-> r.status,
                       ds |-> <<[action_id |-> r.action_id, error |-> r.error,
                                 store_calls |-> r.store_calls]>>,
                       items |-> <<>>, responses |-> <<>>, pre |-> worklist,
                       raised |-> FALSE]
           /\ UNCHANGED nonMwlVars

\* a modality queries the worklist
CFind ==
    /\ last = Idle
    /\ \E identifier \in Identifiers,
          fault \in {"none", "identifier", "find", "build"} :
        \E r \in CFindCall(worklist, identifier, fault) :
            /\ last = Idle
            /\ worklist' = worklist
            /\ last' = [op |-> "CFind",
                        req |-> [identifier |-> identifier, fault |-> fault],
                        status |-> IF r.responses = <<>> THEN None
                                   ELSE r.responses[Len(r.responses)].status,
                        ds |-> <<>>, items |-> r.items, responses |-> r.responses,
                        pre |-> worklist, raised |-> r.raised]
            /\ UNCHANGED nonMwlVars

\* a modality reports the start of a procedure step
NCreate ==
    /\ last = Idle
    /\ \E event \in NCreateEvents :
        LET r == NCreateCall(worklist, event)
        IN /\ last = Idle
           /\ worklist' = r.wl
           /\ last' = [op |-> "NCreate", req |-> event, status |-> r.status,
                       ds |-> r.ds, items |-> <<>>, responses |-> <<>>,
                       pre |-> worklist, raised |-> FALSE]
           /\ UNCHANGED nonMwlVars

\* a modality reports the end of a procedure step
NSet ==
    /\ last = Idle
    /\ \E event \in NSetEvents :
        LET r == NSetCall(worklist, event)
        IN /\ last = Idle
           /\ worklist' = r.wl
           /\ last' = [op |-> "NSet", req |-> event, status |-> r.status,
                       ds |-> r.ds, items |-> <<>>, responses |-> <<>>,
                       pre |-> worklist, raised |-> FALSE]
           /\ UNCHANGED nonMwlVars

\* the answer has gone back to the caller; the next request can be taken
Respond ==
    /\ last # Idle
    /\ last' = Idle
    /\ UNCHANGED <<worklist, nonMwlVars>>

Next == Create \/ CFind \/ NCreate \/ NSet \/ Respond

Spec == Init /\ [][Next]_vars

(* ---------------------------------------------------------------------- *)
(* The image store: one C-STORE at a time                                  *)
(* ---------------------------------------------------------------------- *)

\* C-STORE handled from receipt to response in one step: the table, the blob
\* directory and the count of write_bytes calls per path
CStore ==
    /\ cstore.op = "Idle"
    /\ \E event \in StoreEvents : \E now \in Timestamps(instances) :
          LET r == CStoreCall(instances, files, event, now)
              path == ComputeStoragePath(event.dataset.SOPInstanceUID)
          IN /\ r.wrote => writes[path] < MaxWrites
             /\ instances' = r.rows
             /\ files' = r.files
             /\ writes' = IF r.wrote THEN [writes EXCEPT ![path] = @ + 1]
                          ELSE writes
             /\ cstore' = [op |-> "CStore", req |-> <<event>>,
                           status |-> r.status, wrote |-> r.wrote,
                           pre_rows |-> instances, pre_files |-> files,
                           pre_writes |-> writes]
    /\ UNCHANGED <<mwlVars, threads, uploadVars>>

\* the status has gone back to the modality
StoreRespond ==
    /\ cstore.op # "Idle"
    /\ cstore' = StoreIdle
    /\ UNCHANGED <<mwlVars, storeVars, threads, uploadVars>>

StoreNext == CStore \/ StoreRespond

StoreSpec == Init /\ [][StoreNext]_vars

(* ---------------------------------------------------------------------- *)
(* The image store: two associations handled by two threads                *)
(* ---------------------------------------------------------------------- *)

\* the C-STORE events the two threads are given: complete datasets without
\* pixel data for either identifier, any storage class and any writer outcome
RaceEvents ==
    {event \in StoreEvents :
        /\ event.fault = "none"
        /\ ValidateDataset(event.dataset)
        /\ event.dataset.PixelData = None}

\* a thread takes a C-STORE and runs CStore.call up to store_instance
Receive(t) ==
    /\ threads[t].pc = "idle"
    /\ \E event \in RaceEvents :
          LET ds == event.dataset
          IN /\ threads' =
                  [threads EXCEPT ![t] =
                      IF FailedGate(event) # 0
                      THEN [ThreadIdle EXCEPT !.pc = "done", !.status = FAILURE]
                      ELSE [pc |-> "instance_exists",
                            sop_instance_uid |-> ds.SOPInstanceUID,
                            file_data |-> <<DatasetToBytes(ds, event.wire)>>,
                            metadata |->
                               <<[accession_number |->
                                     IF ds.AccessionNumber = None THEN ""
                                     ELSE ds.AccessionNumber,
                                  patient_id |-> ds.PatientID,
                                  patient_name |-> ds.PatientName]>>,
                            source_aet |-> event.ae_title,
                            present |-> InstanceExists(instances, ds.SOPInstanceUID),
                            wrote |-> FALSE,
                            status |-> None]]
    /\ UNCHANGED <<mwlVars, storeVars, cstore, uploadVars>>

\* store_instance, the existence check: InstanceExistsError is answered SUCCESS
CheckExists(t) ==
    /\ threads[t].pc = "instance_exists"
    /\ threads' =
         [threads EXCEPT ![t] =
             IF InstanceExists(instances, threads[t].sop_instance_uid)
             THEN [@ EXCEPT !.pc = "done", !.status = SUCCESS]
             ELSE [@ EXCEPT !.pc = "store_file"]]
    /\ UNCHANGED <<mwlVars, storeVars, cstore, uploadVars>>

\* store_instance, store_file
WriteFile(t) ==
    LET self == threads[t]
        stored == StoreFile(files, self.sop_instance_uid, self.file_data[1])
    IN /\ self.pc = "store_file"
       /\ writes[stored.rel_path] < MaxWrites
       /\ files' = stored.files
       /\ writes' = [writes EXCEPT ![stored.rel_path] = @ + 1]
       /\ threads' = [threads EXCEPT ![t] = [@ EXCEPT !.pc = "insert", !.wrote = TRUE]]
       /\ UNCHANGED <<mwlVars, instances, cstore, uploadVars>>

\* store_instance, the INSERT and the return of CStore.call
Insert(t) ==
    \E now \in Timestamps(instances) :
        LET self == threads[t]
            stored == StoreFile(files, self.sop_instance_uid, self.file_data[1])
            inserted == InsertInstance(instances,
                           InstanceRow(self.sop_instance_uid, stored,
                                       self.metadata[1], self.source_aet, now))
        IN /\ self.pc = "insert"
           /\ instances' = inserted.rows
           /\ threads' = [threads EXCEPT ![t] =
                            [@ EXCEPT !.pc = "done",
                                      !.status = IF inserted.raised THEN FAILURE
                                                 ELSE SUCCESS]]
           /\ UNCHANGED <<mwlVars, files, writes, cstore, uploadVars>>

\* the status has gone back to the modality
Return(t) ==
    /\ threads[t].pc = "done"
    /\ threads' = [threads EXCEPT ![t] = ThreadIdle]
    /\ UNCHANGED <<mwlVars, storeVars, cstore, uploadVars>>

RaceNext ==
    \E t \in Threads :
        Receive(t) \/ CheckExists(t) \/ WriteFile(t) \/ Insert(t) \/ Return(t)

RaceSpec == Init /\ [][RaceNext]_vars

(* ---------------------------------------------------------------------- *)
(* The worklist: two N-CREATE requests handled by two threads              *)
(* ---------------------------------------------------------------------- *)

\* the N-CREATE requests the two threads are given: any step-instance
\* identifier, in the attribute list too, and any accession number; no
\* storage call raises by itself
NCreateRaceEvents ==
    {[AffectedSOPInstanceUID |-> u,
      attribute_list |-> [PerformedProcedureStepStatus |-> "IN PROGRESS",
                          SOPInstanceUID |-> au,
                          ScheduledStepAttributesSequence |->
                              <<[AccessionNumber |-> a]>>],
      fault |-> "none"] :
        u \in MppsUids \cup {None}, au \in MppsUids \cup {None}, a \in Accessions}

\* a handler thread of the worklist server waiting for a request
MppsIdle ==
    [pc |-> "idle", affected_sop_instance_uid |-> None, accession_number |-> None,
     sop_instance_uid |-> None, status |-> None]

\* the worklist server starts on a table holding two scheduled records
MppsRaceInit ==
    /\ worklist =
          CreateWorklistItemCall(
              CreateWorklistItemCall(<<>>,
                  [action_id |-> "ACT1",
                   worklist_item |-> WorklistItemPayload("ACC1"),
                   fault |-> "none"]).wl,
              [action_id |-> "ACT1",
               worklist_item |-> WorklistItemPayload("ACC2"),
               fault |-> "none"]).wl
    /\ last = Idle
    /\ instances = <<>>
    /\ files = NoFiles
    /\ writes = NoWrites
    /\ cstore = StoreIdle
    /\ threads = [t \in Threads |-> MppsIdle]
    /\ cfg = DefaultConfiguration
    /\ backoff = 0
    /\ batch = Sleeping("none", 0, <<>>, 0, 0)
    /\ hist = NoHistory
    /\ listener = NotStarted(DefaultBatchSize)

\* NCreate.call up to update_status: the duplicate check and the checks of
\* the attribute list, none of which writes
MppsCheck(t) ==
    /\ threads[t].pc = "idle"
    /\ \E event \in NCreateRaceEvents :
          LET r == NCreateCall(worklist, event)
              attr_list == event.attribute_list
          IN threads' =
               [threads EXCEPT ![t] =
                  IF r.status \in {SUCCESS, PROCESSING_FAILURE}
                  THEN [pc |-> "update_status",
                        affected_sop_instance_uid |-> event.AffectedSOPInstanceUID,
                        accession_number |->
                           attr_list.ScheduledStepAttributesSequence[1].AccessionNumber,
                        sop_instance_uid |->
                           MergedDataset(event.AffectedSOPInstanceUID,
                                         attr_list).SOPInstanceUID,
                        status |-> None]
                  ELSE [MppsIdle EXCEPT
                           !.pc = "done",
                           !.affected_sop_instance_uid = event.AffectedSOPInstanceUID,
                           !.status = r.status]]
    /\ UNCHANGED <<mwlVars, storeVars, cstore, uploadVars>>

\* NCreate.call: update_status and the status returned
MppsUpdate(t) ==
    LET self == threads[t]
        updated == UpdateStatus(worklist, self.accession_number,
                                MWLStatus.IN_PROGRESS, self.sop_instance_uid)
    IN /\ self.pc = "update_status"
       /\ worklist' = updated.wl
       /\ threads' = [threads EXCEPT ![t] =
                        [@ EXCEPT !.pc = "done",
                                  !.status = IF updated.raised
                                             THEN PROCESSING_FAILURE ELSE SUCCESS]]
       /\ UNCHANGED <<last, storeVars, cstore, uploadVars>>

\* the status has gone back to the modality
MppsReturn(t) ==
    /\ threads[t].pc = "done"
    /\ threads' = [threads EXCEPT ![t] = MppsIdle]
    /\ UNCHANGED <<mwlVars, storeVars, cstore, uploadVars>>

MppsRaceNext ==
    \E t \in Threads : MppsCheck(t) \/ MppsUpdate(t) \/ MppsReturn(t)

MppsRaceSpec == MppsRaceInit /\ [][MppsRaceNext]_vars

(* ---------------------------------------------------------------------- *)
(* The worklist: N-SET requests handled by two threads while an            *)
(* administrator deletes records                                           *)
(* ---------------------------------------------------------------------- *)

\* MWLStorage.delete_worklist_item
DeleteWorklistItem(wl, accession_number) ==
    LET Kept(row) == row.accession_number # accession_number
    IN IF \E i \in DOMAIN wl : wl[i].accession_number = accession_number
       THEN [raised |-> FALSE, wl |-> SelectSeq(wl, Kept)]
       ELSE [raised |-> TRUE, wl |-> wl]

\* cursor.rowcount of the UPDATE in MWLStorage.update_status
RowCount(wl, accession_number) ==
    Cardinality({i \in DOMAIN wl : wl[i].accession_number = accession_number})

\* the SELECT that ends MWLStorage.update_status
SelectSourceMessageId(wl, accession_number) ==
    LET hit == {i \in DOMAIN wl : wl[i].accession_number = accession_number}
    IN IF hit = {} THEN None ELSE wl[CHOOSE i \in hit : TRUE].source_message_id

\* the N-SET requests the two threads are given; no storage call raises by
\* itself
NSetRaceEvents ==
    {[RequestedSOPInstanceUID |-> u,
      attribute_list |-> [PerformedProcedureStepStatus |-> st,
                          SOPInstanceUID |-> None],
      fault |-> "none"] :
        u \in MppsUids \cup {None},
        st \in {None, "COMPLETED", "DISCONTINUED", "IN PROGRESS"}}

\* a handler thread of the worklist server waiting for an N-SET;
\* rowcount is -1 until the UPDATE has run
NSetIdle ==
    [pc |-> "idle", event |-> None, accession_number |-> None,
     rowcount |-> -1, status |-> None, ds |-> <<>>]

\* the two scheduled records of MppsRaceInit, each bound to a step by an
\* N-CREATE
BoundWorklist ==
    LET Start(wl, u, a) ==
            NCreateCall(wl,
                [AffectedSOPInstanceUID |-> u,
                 attribute_list |->
                     [PerformedProcedureStepStatus |-> "IN PROGRESS",
                      SOPInstanceUID |-> None,
                      ScheduledStepAttributesSequence |->
                          <<[AccessionNumber |-> a]>>],
                 fault |-> "none"]).wl
        scheduled ==
            CreateWorklistItemCall(
                CreateWorklistItemCall(<<>>,
                    [action_id |-> "ACT1",
                     worklist_item |-> WorklistItemPayload("ACC1"),
                     fault |-> "none"]).wl,
                [action_id |-> "ACT1",
                 worklist_item |-> WorklistItemPayload("ACC2"),
                 fault |-> "none"]).wl
    IN Start(Start(scheduled, "1.2.1", "ACC1"), "1.2.2", "ACC2")

NSetRaceInit ==
    /\ worklist = BoundWorklist
    /\ last = Idle
    /\ instances = <<>>
    /\ files = NoFiles
    /\ writes = NoWrites
    /\ cstore = StoreIdle
    /\ threads = [t \in Threads |-> NSetIdle]
    /\ cfg = DefaultConfiguration
    /\ backoff = 0
    /\ batch = Sleeping("none", 0, <<>>, 0, 0)
    /\ hist = NoHistory
    /\ listener = NotStarted(DefaultBatchSize)

\* NSet.call up to update_status: the checks of the modification list and
\* get_worklist_item_by_mpps_instance_uid, none of which writes
NSetLookup(t) ==
    /\ threads[t].pc = "idle"
    /\ \E event \in NSetRaceEvents :
          LET status == event.attribute_list.PerformedProcedureStepStatus
              worklist_item ==
                  GetWorklistItemByMppsInstanceUid(worklist,
                                                   event.RequestedSOPInstanceUID)
              Reject(code) == [NSetIdle EXCEPT !.pc = "done", !.event = event,
                                               !.status = code]
          IN threads' =
               [threads EXCEPT ![t] =
                  IF ~Truthy(status) THEN Reject(MISSING_ATTRIBUTE)
                  ELSE IF status \notin {MWLStatus.COMPLETED, MWLStatus.DISCONTINUED}
                  THEN Reject(INVALID_ATTRIBUTE)
                  ELSE IF worklist_item = <<>> THEN Reject(UNKNOWN_SOP_INSTANCE)
                  ELSE [NSetIdle EXCEPT
                           !.pc = "update_status", !.event = event,
                           !.accession_number = worklist_item[1].accession_number]]
    /\ UNCHANGED <<mwlVars, storeVars, cstore, uploadVars>>

\* MWLStorage.update_status, the UPDATE and its commit: with no row hit
\* the call returns None and NSet.call answers
NSetUpdate(t) ==
    LET self == threads[t]
        status == self.event.attribute_list.PerformedProcedureStepStatus
        updated == UpdateStatus(worklist, self.accession_number, status, None)
        rowcount == RowCount(worklist, self.accession_number)
    IN /\ self.pc = "update_status"
       /\ worklist' = updated.wl
       /\ threads' = [threads EXCEPT ![t] =
                        IF updated.raised \/ rowcount = 0
                        THEN [@ EXCEPT !.pc = "done", !.rowcount = rowcount,
                                       !.status = PROCESSING_FAILURE]
                        ELSE [@ EXCEPT !.pc = "select", !.rowcount = rowcount]]
       /\ UNCHANGED <<last, storeVars, cstore, uploadVars>>

\* MWLStorage.update_status, the SELECT of the source message id after the
\* commit, and the answer of NSet.call
NSetSelect(t) ==
    LET self == threads[t]
        source_message_id == SelectSourceMessageId(worklist, self.accession_number)
    IN /\ self.pc = "select"
       /\ threads' = [threads EXCEPT ![t] =
                        IF Truthy(source_message_id)
                        THEN [@ EXCEPT !.pc = "done", !.status = SUCCESS,
                                       !.ds = <<MergedDataset(
                                                  self.event.RequestedSOPInstanceUID,
                                                  self.event.attribute_list)>>]
                        ELSE [@ EXCEPT !.pc = "done",
                                       !.status = PROCESSING_FAILURE]]
       /\ UNCHANGED <<mwlVars, storeVars, cstore, uploadVars>>

\* the status has gone back to the modality
NSetReturn(t) ==
    /\ threads[t].pc = "done"
    /\ threads' = [threads EXCEPT ![t] = NSetIdle]
    /\ UNCHANGED <<mwlVars, storeVars, cstore, uploadVars>>

\* an administrator deletes a record; a missing record raises and nothing
\* changes
AdminDelete ==
    /\ \E accession_number \in Accessions :
          worklist' = DeleteWorklistItem(worklist, accession_number).wl
    /\ UNCHANGED <<last, nonMwlVars>>

NSetRaceNext ==
    \/ \E t \in Threads :
          NSetLookup(t) \/ NSetUpdate(t) \/ NSetSelect(t) \/ NSetReturn(t)
    \/ AdminDelete

NSetRaceSpec == NSetRaceInit /\ [][NSetRaceNext]_vars

(* ---------------------------------------------------------------------- *)
(* The listeners: actions arriving from the service bus and the relay      *)
(* ---------------------------------------------------------------------- *)

\* ACTIONS of service_bus_listener and relay_listener (the name in capitals
\* is a reserved word)
Actions == {"worklist.create_item"}

\* the action payloads a caller sends: those of Payloads with an
\* action_type (None: the key is not in the payload)
ActionPayloads ==
    {[action_type |-> t, action_id |-> p.action_id,
      worklist_item |-> p.worklist_item, fault |-> p.fault] :
        t \in {"worklist.create_item", "worklist.unknown_action", None},
        p \in Payloads}

\* the texts a message can carry: a JSON object (value holds the action
\* payload it encodes), a JSON array, or text that is not JSON
Texts ==
    {[syntax |-> "object", value |-> <<p>>] : p \in ActionPayloads}
        \cup {[syntax |-> "array", value |-> <<>>],
              [syntax |-> "malformed", value |-> <<>>]}

\* json.loads
JsonLoads(text) ==
    IF text.syntax = "malformed"
    THEN [raised |-> TRUE, value |-> <<>>]
    ELSE [raised |-> FALSE, value |-> text.value]

\* whether a decoded value has a get method
IsMapping(text) == text.syntax = "object"

\* ServiceBusCommandListener.process_action, RelayListener.process_action
ProcessAction(wl, payload) ==
    LET action_name == IF payload.action_type = None THEN "no-op"
                       ELSE payload.action_type
        r == CreateWorklistItemCall(wl, payload)
    IN IF action_name \notin Actions
       THEN [raised |-> TRUE, result |-> <<>>, wl |-> wl]
       ELSE [raised |-> FALSE,
             result |-> <<[status |-> r.status, action_id |-> r.action_id,
                           error |-> r.error]>>,
             wl |-> r.wl]

\* json.loads of the message followed by process_action
DecodeAndProcess(wl, text) ==
    LET decoded == JsonLoads(text)
    IN IF decoded.raised \/ ~IsMapping(text)
       THEN [raised |-> TRUE, result |-> <<>>, wl |-> wl]
       ELSE ProcessAction(wl, decoded.value[1])

\* the receiver calls that can raise while a message is settled
BusFaults == {"none", "complete_message", "abandon_message"}

\* ServiceBusCommandListener.listen, one message: calls are the
\* settlement calls issued on the receiver, in order; raised tells that an
\* exception left listen
ListenBus(wl, text, fault) ==
    LET r == DecodeAndProcess(wl, text)
    IN IF r.raised
       THEN [processed |-> r, calls |-> <<"abandon_message">>,
             raised |-> fault = "abandon_message"]
       ELSE IF fault = "complete_message"
       THEN [processed |-> r, calls |-> <<"complete_message", "abandon_message">>,
             raised |-> FALSE]
       ELSE [processed |-> r, calls |-> <<"complete_message">>, raised |-> FALSE]

\* the service bus delivers a message
ServiceBusMessage ==
    /\ last = Idle
    /\ \E text \in Texts, fault \in BusFaults :
        LET r == ListenBus(worklist, text, fault)
        IN /\ Len(r.processed.wl) <= MaxItems
           /\ worklist' = r.processed.wl
           /\ last' = [op |-> "ServiceBus",
                       req |-> [text |-> text, fault |-> fault],
                       status |-> IF r.processed.raised THEN "raised"
                                  ELSE r.processed.result[1].status,
                       ds |-> r.processed.result, items |-> <<>>,
                       responses |-> r.calls, pre |-> worklist,
                       raised |-> r.raised]
           /\ UNCHANGED nonMwlVars

\* what the client connection of a relay message does: the connection
\* cannot be opened, nothing arrives within the timeout, or a text arrives
\* and the acknowledgment can or cannot be sent
ClientConnections ==
    {[event |-> e, text |-> [syntax |-> "malformed", value |-> <<>>]] :
        e \in {"connect_fails", "timeout"}}
        \cup {[event |-> e, text |-> t] :
                e \in {"message", "message_send_fails"}, t \in Texts}

\* the messages of the relay: text that is not JSON, a JSON object
\* without an accept entry, or one that announces a client connection
RelayMessages ==
    {[syntax |-> "malformed", accept |-> FALSE, client |-> <<>>],
     [syntax |-> "object", accept |-> FALSE, client |-> <<>>]}
        \cup {[syntax |-> "object", accept |-> TRUE, client |-> <<c>>] :
                c \in ClientConnections}

\* RelayListener.listen, one relay message: sent is what went back on the
\* client connection; every exception is caught in the loop
ListenRelay(wl, message) ==
    LET client == message.client[1]
        r == DecodeAndProcess(wl, client.text)
        Skipped == [processed |-> [raised |-> FALSE, result |-> <<>>, wl |-> wl],
                    received |-> FALSE, sent |-> <<>>, caught |-> FALSE]
        Failed == [Skipped EXCEPT !.caught = TRUE]
    IN IF message.syntax = "malformed" THEN Failed
       ELSE IF ~message.accept THEN Skipped
       ELSE IF client.event \in {"connect_fails", "timeout"} THEN Failed
       ELSE IF r.raised
       THEN [processed |-> r, received |-> TRUE, sent |-> <<>>, caught |-> TRUE]
       ELSE IF client.event = "message_send_fails"
       THEN [processed |-> r, received |-> TRUE, sent |-> <<>>, caught |-> TRUE]
       ELSE [processed |-> r, received |-> TRUE, sent |-> r.result,
             caught |-> FALSE]

\* the relay delivers a message
RelayMessage ==
    /\ last = Idle
    /\ \E message \in RelayMessages :
        LET r == ListenRelay(worklist, message)
        IN /\ Len(r.processed.wl) <= MaxItems
           /\ worklist' = r.processed.wl
           /\ last' = [op |-> "Relay", req |-> message,
                       status |-> IF r.caught THEN "raised"
                                  ELSE IF r.sent = <<>> THEN None
                                  ELSE r.sent[1].status,
                       ds |-> r.processed.result, items |-> <<>>,
                       responses |-> r.sent, pre |-> worklist,
                       raised |-> FALSE]
           /\ UNCHANGED nonMwlVars

ListenerNext == ServiceBusMessage \/ RelayMessage \/ Respond

ListenerSpec == Init /\ [][ListenerNext]_vars

(* ---------------------------------------------------------------------- *)
(* The worklist with records added by the command-line utility             *)
(* ---------------------------------------------------------------------- *)

\* scripts/add_worklist_item.py: the record the utility stores for an
\* accession number.  It passes no source message id and no study instance
\* uid, which keep the defaults of WorklistItem; sex, description and
\* procedure code default to "".
AddWorklistItem(wl, accession_number) ==
    LET item == WorklistItemPayload(accession_number)
    IN StoreWorklistItem(wl,
           [accession_number |-> item.accession_number,
            patient_id |-> item.nhs_number,
            patient_name |-> item.name,
            patient_birth_date |-> item.birth_date,
            scheduled_date |-> item.date,
            scheduled_time |-> item.time,
            modality |-> item.modality,
            study_description |-> GetOr(item.study_description, ""),
            patient_sex |-> GetOr(item.sex, ""),
            procedure_code |-> "",
            source_message_id |-> None,
            study_instance_uid |-> None])

\* an operator runs the utility; an accession number that is already
\* there makes the INSERT raise, and the utility reports the error
AdminStore ==
    /\ last = Idle
    /\ \E accession_number \in Accessions :
        LET stored == AddWorklistItem(worklist, accession_number)
        IN /\ Len(stored.wl) <= MaxItems
           /\ worklist' = stored.wl
    /\ UNCHANGED <<last, nonMwlVars>>

AdminNext == AdminStore \/ Create \/ NCreate \/ NSet \/ Respond

AdminSpec == Init /\ [][AdminNext]_vars

(* ---------------------------------------------------------------------- *)
(* The upload engine: UploadListener.start driving UploadProcessor         *)
(* ---------------------------------------------------------------------- *)

\* the item upload_instance is working on
Item == batch.pending[batch.idx]

\* a storage call may raise while fewer than MaxFaults have
MayRaise == hist.faults < MaxFaults

\* the history after a storage call on the item raised
Faulted(h, sop_instance_uid) ==
    [h EXCEPT !.faults = @ + 1, !.image[sop_instance_uid].store_fault = TRUE]

\* the history after upload_instance ended for the item
Attempted(h, sop_instance_uid, success) ==
    IF success THEN [h EXCEPT !.image[sop_instance_uid].successes = @ + 1]
    ELSE [h EXCEPT !.image[sop_instance_uid].failures = @ + 1]

\* process_batch after upload_instance returned: the next item of the loop,
\* or the backoff and the return
AfterItem(b, current_backoff, success) ==
    LET successes == b.successes + (IF success THEN 1 ELSE 0)
        failures == Len(b.pending) - successes
    IN IF b.idx < Len(b.pending)
       THEN [batch |-> [b EXCEPT !.pc = "mark_upload_started", !.idx = @ + 1,
                                 !.successes = successes, !.in_except = FALSE,
                                 !.error = <<>>, !.dicom_bytes = <<>>,
                                 !.action_id = None],
             backoff |-> current_backoff]
       ELSE [batch |-> Sleeping("returned", b.prev_backoff, b.pending, b.idx,
                                successes),
             backoff |-> IF failures > 0
                         THEN IncreaseBackoff(current_backoff, cfg)
                         ELSE ResetBackoff(current_backoff)]

\* upload_instance jumps to its except block
ToExcept(b, message_length) ==
    [b EXCEPT !.pc = "mark_failed", !.in_except = TRUE,
              !.error = <<UnexpectedError(message_length)>>]

\* the stores the engine can start on: up to two images received by
\* C-STORE, the second within the same second as the first or later, each
\* blob still on disk or lost since
UploadStores ==
    LET Received(u) ==
            [dataset |-> [SOPInstanceUID |-> u, PatientID |-> "999123456",
                          StudyInstanceUID |-> "1.2.3",
                          SOPClassUID |-> "DigitalMammographyXRayImageStorageForPresentation",
                          AccessionNumber |-> IF u = "1.2.3.1" THEN "ACC1" ELSE None,
                          PatientName |-> "SMITH^JANE", PixelData |-> None,
                          image_tags |-> RequiredImageTags],
             file_meta |-> [MediaStorageSOPClassUID |->
                              "DigitalMammographyXRayImageStorageForPresentation"],
             ae_title |-> "MODALITY", wire |-> "file", fault |-> "none"]
        empty == [rows |-> <<>>, files |-> NoFiles]
        one == CStoreCall(empty.rows, empty.files, Received("1.2.3.1"), 1)
        two == {CStoreCall(one.rows, one.files, Received("1.2.3.2"), now) :
                  now \in Timestamps(one.rows)}
        Lost(fs, gone) == [p \in StoragePaths |-> IF p \in gone THEN <<>> ELSE fs[p]]
    IN {[rows |-> st.rows, files |-> Lost(st.files, gone)] :
          st \in {empty, [rows |-> one.rows, files |-> one.files]}
                 \cup {[rows |-> r.rows, files |-> r.files] : r \in two},
          gone \in SUBSET StoragePaths}

\* the engine starts on a store the image side has filled and a worklist
\* holding the record of the first image
UploadInit ==
    /\ worklist = CreateWorklistItemCall(<<>>,
                      [action_id |-> "ACT1",
                       worklist_item |-> WorklistItemPayload("ACC1"),
                       fault |-> "none"]).wl
    /\ last = Idle
    /\ \E st \in UploadStores : instances = st.rows /\ files = st.files
    /\ writes = NoWrites
    /\ cstore = StoreIdle
    /\ threads = [t \in Threads |-> ThreadIdle]
    /\ cfg \in Configurations
    /\ backoff = 0
    /\ batch = Sleeping("none", 0, <<>>, 0, 0)
    /\ hist = NoHistory
    /\ listener = NotStarted(cfg.limit)

\* process_batch up to the loop: get_pending_uploads, and the reset when
\* nothing is pending; an exception of the query goes to the listener
ProcessBatch(limit) ==
    /\ batch.pc = "sleep"
    /\ \/ /\ MayRaise
          /\ batch' = Sleeping("raised", backoff, <<>>, 0, 0)
          /\ hist' = [hist EXCEPT !.faults = @ + 1]
          /\ UNCHANGED backoff
       \/ \E pending \in GetPendingUploads(instances, limit, cfg.max_retries) :
             /\ IF pending = <<>>
                THEN /\ batch' = Sleeping("returned", backoff, <<>>, 0, 0)
                     /\ backoff' = ResetBackoff(backoff)
                ELSE /\ batch' = [Sleeping("none", backoff, pending, 0, 0)
                                     EXCEPT !.pc = "mark_upload_started", !.idx = 1]
                     /\ UNCHANGED backoff
             /\ UNCHANGED hist
    /\ UNCHANGED <<mwlVars, storeVars, cstore, threads, cfg>>

\* the listener calls process_batch with its batch size, which is limit of
\* the configuration
Poll == ProcessBatch(cfg.limit) /\ UNCHANGED listener

\* upload_instance: mark_upload_started
MarkStarted ==
    /\ batch.pc = "mark_upload_started"
    /\ \/ /\ instances' = MarkUploadStarted(instances, Item.sop_instance_uid)
          /\ batch' = [batch EXCEPT !.pc = "read_bytes"]
          /\ UNCHANGED hist
       \/ \E n \in MessageLengths :
             /\ MayRaise
             /\ batch' = ToExcept(batch, n)
             /\ hist' = Faulted(hist, Item.sop_instance_uid)
             /\ UNCHANGED instances
    /\ UNCHANGED <<mwlVars, files, writes, cstore, threads, cfg, backoff, listener>>

\* upload_instance: dicom_path.exists, read_bytes and get_source_message_id
ReadFile ==
    /\ batch.pc = "read_bytes"
    /\ \/ /\ files[Item.storage_path] = <<>>
          /\ batch' = [batch EXCEPT !.pc = "mark_failed",
                                    !.error = <<NotFoundError>>]
       \/ /\ files[Item.storage_path] # <<>>
          /\ batch' = [batch EXCEPT
                         !.pc = "upload_dicom",
                         !.dicom_bytes = files[Item.storage_path],
                         !.action_id =
                            IF Truthy(Item.accession_number)
                            THEN GetSourceMessageId(worklist, Item.accession_number)
                            ELSE None]
       \/ \E n \in MessageLengths : batch' = ToExcept(batch, n)
    /\ UNCHANGED <<mwlVars, storeVars, cstore, threads, cfg, backoff, hist, listener>>

\* upload_instance: uploader.upload_dicom posts the file
SendUpload ==
    /\ batch.pc = "upload_dicom"
    /\ batch' = [batch EXCEPT !.pc = "in_flight"]
    /\ hist' = [hist EXCEPT !.image[Item.sop_instance_uid].remote_calls = @ + 1]
    /\ UNCHANGED <<mwlVars, storeVars, cstore, threads, cfg, backoff, listener>>

\* upload_instance: upload_dicom returns True or False, or raises
UploadReturns ==
    /\ batch.pc = "in_flight"
    /\ \/ /\ batch' = [batch EXCEPT !.pc = "mark_upload_complete"]
          /\ hist' = [hist EXCEPT !.image[Item.sop_instance_uid].acks = @ + 1]
       \/ /\ batch' = [batch EXCEPT !.pc = "mark_failed",
                                    !.error = <<FailureStatusError>>]
          /\ UNCHANGED hist
       \/ /\ \E n \in MessageLengths : batch' = ToExcept(batch, n)
          /\ UNCHANGED hist
    /\ UNCHANGED <<mwlVars, storeVars, cstore, threads, cfg, backoff, listener>>

\* upload_instance: mark_upload_complete and return True
MarkComplete ==
    /\ batch.pc = "mark_upload_complete"
    /\ \/ LET next == AfterItem(batch, backoff, TRUE)
          IN /\ instances' = MarkUploadComplete(instances, Item.sop_instance_uid)
             /\ batch' = next.batch
             /\ backoff' = next.backoff
             /\ hist' = Attempted(hist, Item.sop_instance_uid, TRUE)
       \/ \E n \in MessageLengths :
             /\ MayRaise
             /\ batch' = ToExcept(batch, n)
             /\ hist' = Faulted(hist, Item.sop_instance_uid)
             /\ UNCHANGED <<instances, backoff>>
    /\ UNCHANGED <<mwlVars, files, writes, cstore, threads, cfg, listener>>

\* upload_instance: _mark_failed and return False.  When mark_upload_failed
\* raises inside the try block the except block calls _mark_failed again;
\* when it raises there the exception leaves upload_instance and
\* process_batch and is logged by the listener.
MarkFailed ==
    /\ batch.pc = "mark_failed"
    /\ \/ LET next == AfterItem(batch, backoff, FALSE)
          IN /\ instances' =
                   MarkUploadFailed(instances, Item.sop_instance_uid,
                                    batch.error[1],
                                    Permanent(Item.upload_attempt_count + 1, cfg))
             /\ batch' = next.batch
             /\ backoff' = next.backoff
             /\ hist' = Attempted(hist, Item.sop_instance_uid, FALSE)
       \/ \E n \in MessageLengths :
             /\ MayRaise
             /\ ~batch.in_except
             /\ batch' = ToExcept(batch, n)
             /\ hist' = Faulted(hist, Item.sop_instance_uid)
             /\ UNCHANGED <<instances, backoff>>
       \/ /\ MayRaise
          /\ batch.in_except
          /\ batch' = Sleeping("raised", batch.prev_backoff, batch.pending,
                               batch.idx, batch.successes)
          /\ hist' = Attempted(Faulted(hist, Item.sop_instance_uid),
                               Item.sop_instance_uid, FALSE)
          /\ UNCHANGED <<instances, backoff>>
    /\ UNCHANGED <<mwlVars, files, writes, cstore, threads, cfg, listener>>

UploadNext ==
    \/ Poll \/ MarkStarted \/ ReadFile \/ SendUpload
    \/ UploadReturns \/ MarkComplete \/ MarkFailed

UploadSpec == UploadInit /\ [][UploadNext]_vars

(* ---------------------------------------------------------------------- *)
(* UploadListener.start and stop                                           *)
(* ---------------------------------------------------------------------- *)

\* variant of KeepsRunning: the loop never looks at the flag
KeepsRunning_Always(l) == TRUE

\* the condition of the while loop of start
KeepsRunning(l) == l.running

\* variant of SleepTime: the backoff of the processor is left out
SleepTime_BaseOnly(outcome, poll_interval, backoff_delay) == poll_interval

\* the argument of time.sleep after a cycle: poll_interval plus the
\* backoff_delay of the processor when process_batch returned,
\* poll_interval alone when it raised
SleepTime(outcome, poll_interval, backoff_delay) ==
    IF outcome = "raised" THEN poll_interval ELSE poll_interval + backoff_delay

\* start: the flag is set and the loop entered
Start ==
    /\ listener.pc = "init"
    /\ listener' = [listener EXCEPT !.running = TRUE, !.pc = "while"]
    /\ UNCHANGED <<mwlVars, storeVars, cstore, threads, cfg, backoff, batch, hist>>

\* the loop condition holds and process_batch is called
StartCycle ==
    /\ listener.pc = "while"
    /\ KeepsRunning(listener)
    /\ ProcessBatch(listener.batch_size)
    /\ listener' = [listener EXCEPT !.pc = "process_batch",
                                    !.limit = listener.batch_size]

\* process_batch has returned or raised: the listener sleeps and goes
\* back to the loop condition
Sleep ==
    /\ listener.pc = "process_batch"
    /\ batch.pc = "sleep"
    /\ listener' = [listener EXCEPT
                      !.pc = "while",
                      !.sleep_time = SleepTime(batch.outcome,
                                               listener.poll_interval, backoff)]
    /\ UNCHANGED <<mwlVars, storeVars, cstore, threads, cfg, backoff, batch, hist>>

\* the loop condition fails and start returns
Exit ==
    /\ listener.pc = "while"
    /\ ~KeepsRunning(listener)
    /\ listener' = [listener EXCEPT !.pc = "returned"]
    /\ UNCHANGED <<mwlVars, storeVars, cstore, threads, cfg, backoff, batch, hist>>

\* stop, called from another thread or a signal handler while start runs
Stop ==
    /\ listener.pc \in {"while", "process_batch"}
    /\ listener.running
    /\ listener' = [listener EXCEPT !.running = FALSE]
    /\ UNCHANGED <<mwlVars, storeVars, cstore, threads, cfg, backoff, batch, hist>>

\* upload_instance, step by step, while the listener is inside process_batch
UploadStep ==
    /\ listener.pc = "process_batch"
    /\ \/ MarkStarted \/ ReadFile \/ SendUpload
       \/ UploadReturns \/ MarkComplete \/ MarkFailed

ListenNext == Start \/ StartCycle \/ UploadStep \/ Sleep \/ Exit \/ Stop

\* upload_main with MAX_UPLOAD_RETRIES=1: every image gets one attempt
ListenInit == UploadInit /\ cfg.max_retries = 1

ListenSpec == ListenInit /\ [][ListenNext]_vars

\* the loop and the calls it makes are scheduled; stop is not
FairListenSpec ==
    ListenSpec /\ WF_vars(Start \/ StartCycle \/ UploadStep \/ Sleep \/ Exit)

(* ---------------------------------------------------------------------- *)
(* The upload engine stopping and being started again                      *)
(* ---------------------------------------------------------------------- *)

\* the engine process stops, wherever process_batch stands: what the
\* processor held in memory is gone, the tables and the files stay
EngineStops ==
    /\ batch.pc # "stopped"
    /\ MayRaise
    /\ batch' = [batch EXCEPT !.pc = "stopped"]
    /\ hist' = [hist EXCEPT !.faults = @ + 1]
    /\ UNCHANGED <<mwlVars, storeVars, cstore, threads, cfg, backoff, listener>>

\* upload_main runs again: a new processor with no backoff, and the
\* listener about to call process_batch
EngineRestarts ==
    /\ batch.pc = "stopped"
    /\ batch' = Sleeping("none", 0, <<>>, 0, 0)
    /\ backoff' = 0
    /\ UNCHANGED <<mwlVars, storeVars, cstore, threads, cfg, hist, listener>>

RestartNext == UploadNext \/ EngineStops \/ EngineRestarts

\* the engine, like the listener above, gives every image one attempt
RestartSpec == ListenInit /\ [][RestartNext]_vars

\* the polling loop and the restart are scheduled; the stop is not
FairRestartSpec == RestartSpec /\ WF_vars(UploadNext \/ EngineRestarts)

(* ---------------------------------------------------------------------- *)
(* Properties                                                              *)
(* ---------------------------------------------------------------------- *)

Terminal == {MWLStatus.COMPLETED, MWLStatus.DISCONTINUED}

AccessionNumbers(rows) == {rows[i].accession_number : i \in DOMAIN rows}

\* the filter value a C-FIND identifier carries for a tag of its first
\* scheduled-step item, None when there is none
StepFilter(identifier, tag) ==
    IF identifier.ScheduledProcedureStepSequence = <<>> THEN None
    ELSE identifier.ScheduledProcedureStepSequence[1][tag]

\* the rows of a table that a C-FIND identifier selects
Selected(rows, identifier) ==
    {i \in DOMAIN rows :
        /\ rows[i].status = "SCHEDULED"
        /\ StepFilter(identifier, "Modality") \in {None, rows[i].modality}
        /\ StepFilter(identifier, "ScheduledProcedureStepStartDate")
              \in {None, rows[i].scheduled_date}
        /\ identifier.PatientID \in {None, rows[i].patient_id}}

IsTerminalPair(pair) == pair.status \in {SUCCESS, FAILURE} /\ pair.ds = <<>>

NoFilters == [PatientID |-> None, ScheduledProcedureStepSequence |-> <<>>]

C3_OnlyScheduledEmitted ==
    last.op = "CFind" =>
        \A j \in DOMAIN last.responses :
            last.responses[j].status = PENDING =>
                \E i \in DOMAIN worklist :
                    /\ worklist[i].accession_number =
                          last.responses[j].ds[1].AccessionNumber
                    /\ worklist[i].status = MWLStatus.SCHEDULED

C3_Witness ==
    /\ last.op = "CFind"
    /\ last.req.identifier = NoFilters
    /\ Len(last.responses) = 2
    /\ last.responses[1].status = PENDING
    /\ \E i \in DOMAIN worklist : worklist[i].status = MWLStatus.IN_PROGRESS

C5_TerminalStaysTerminal ==
    [][\A i \in DOMAIN worklist :
          worklist[i].status \in Terminal => worklist'[i].status \in Terminal]_vars

\* an N-CREATE event passes the six checks of NCreate.call on the table rows
NCreatePasses(rows, event) ==
    /\ event.AffectedSOPInstanceUID # None
    /\ \A i \in DOMAIN rows :
          rows[i].mpps_instance_uid # event.AffectedSOPInstanceUID
    /\ event.attribute_list.PerformedProcedureStepStatus
          \in {"IN PROGRESS", "in progress"}
    /\ event.attribute_list.ScheduledStepAttributesSequence # <<>>
    /\ event.attribute_list.ScheduledStepAttributesSequence[1].AccessionNumber # None

EventAccession(event) ==
    event.attribute_list.ScheduledStepAttributesSequence[1].AccessionNumber

\* the N-CREATE events that replay a step-instance identifier, with no
\* storage fault
Replays(uid) ==
    {e \in NCreateEvents : e.AffectedSOPInstanceUID = uid /\ e.fault = "none"}

C7_FirstFailingCheckDecides ==
    last.op = "NCreate" =>
        LET e == last.req
            a == e.attribute_list
            registered == \E i \in DOMAIN last.pre :
                             last.pre[i].mpps_instance_uid = e.AffectedSOPInstanceUID
            lookedUp == e.AffectedSOPInstanceUID # None
                        /\ e.fault # "mpps_instance_exists"
            statusOk == a.PerformedProcedureStepStatus \in {"IN PROGRESS", "in progress"}
        IN /\ e.AffectedSOPInstanceUID = None => last.status = INVALID_ATTRIBUTE
           /\ (lookedUp /\ registered) => last.status = DUPLICATE_SOP_INSTANCE
           /\ (lookedUp /\ ~registered /\ a.PerformedProcedureStepStatus = None)
                 => last.status = MISSING_ATTRIBUTE
           /\ (lookedUp /\ ~registered /\ a.PerformedProcedureStepStatus # None
                 /\ ~statusOk) => last.status = INVALID_ATTRIBUTE
           /\ (lookedUp /\ ~registered /\ statusOk
                 /\ a.ScheduledStepAttributesSequence = <<>>)
                 => last.status = MISSING_ATTRIBUTE
           /\ (lookedUp /\ ~registered /\ statusOk
                 /\ a.ScheduledStepAttributesSequence # <<>>
                 /\ a.ScheduledStepAttributesSequence[1].AccessionNumber = None)
                 => last.status = MISSING_ATTRIBUTE
           /\ last.status \in {INVALID_ATTRIBUTE, DUPLICATE_SOP_INSTANCE,
                               MISSING_ATTRIBUTE}
                 => (worklist = last.pre /\ last.ds = <<>>)

C7_Witness ==
    /\ last.op = "NCreate"
    /\ last.status = INVALID_ATTRIBUTE
    /\ last.req.AffectedSOPInstanceUID # None
    /\ last.req.attribute_list.PerformedProcedureStepStatus = "COMPLETED"
    /\ last.req.attribute_list.ScheduledStepAttributesSequence = <<>>
    /\ \E i \in DOMAIN last.pre : last.pre[i].mpps_instance_uid # None

\* C8: an N-CREATE that passes all checks and whose accession number matches
\* a record leaves that record IN PROGRESS with the request's step-instance
\* identifier, returns success with a dataset carrying that identifier, and
\* leaves every other record unchanged.
C8_MatchedRecordBoundToRequestId ==
    (/\ last.op = "NCreate"
     /\ last.req.fault = "none"
     /\ NCreatePasses(last.pre, last.req)) =>
        \A i \in DOMAIN last.pre :
            IF last.pre[i].accession_number = EventAccession(last.req)
            THEN /\ last.status = SUCCESS
                 /\ worklist[i].status = MWLStatus.IN_PROGRESS
                 /\ worklist[i].mpps_instance_uid = last.req.AffectedSOPInstanceUID
                 /\ last.ds # <<>>
                 /\ last.ds[1].SOPInstanceUID = last.req.AffectedSOPInstanceUID
            ELSE worklist[i] = last.pre[i]

\* C9: an N-CREATE that passes all checks but whose accession number matches
\* no record returns success and leaves the worklist table as it was.
C9_UnmatchedAccessionIsSuccessNoChange ==
    (/\ last.op = "NCreate"
     /\ last.req.fault = "none"
     /\ NCreatePasses(last.pre, last.req)
     /\ EventAccession(last.req) \notin AccessionNumbers(last.pre)) =>
        /\ last.status = SUCCESS
        /\ worklist = last.pre

C9_Witness ==
    /\ last.op = "NCreate"
    /\ last.req.fault = "none"
    /\ NCreatePasses(last.pre, last.req)
    /\ EventAccession(last.req) \notin AccessionNumbers(last.pre)
    /\ Len(last.pre) = 2
    /\ last.status = SUCCESS

\* C10: an N-SET is checked in the order: status absent -> missing-attribute;
\* status not exactly COMPLETED or DISCONTINUED -> invalid-attribute; no
\* record bound to the requested step-instance identifier -> unknown-instance.
\* Each of these rejections leaves every record unchanged.
C10_NSetChecksInOrder ==
    last.op = "NSet" =>
        LET e == last.req
            st == e.attribute_list.PerformedProcedureStepStatus
            bound == \E i \in DOMAIN last.pre :
                        /\ last.pre[i].mpps_instance_uid # None
                        /\ last.pre[i].mpps_instance_uid = e.RequestedSOPInstanceUID
        IN /\ st = None => last.status = MISSING_ATTRIBUTE
           /\ (st # None /\ st \notin Terminal) => last.status = INVALID_ATTRIBUTE
           /\ (/\ st \in Terminal
               /\ e.fault # "get_worklist_item_by_mpps_instance_uid"
               /\ ~bound) => last.status = UNKNOWN_SOP_INSTANCE
           /\ last.status \in {MISSING_ATTRIBUTE, INVALID_ATTRIBUTE,
                               UNKNOWN_SOP_INSTANCE}
                 => (worklist = last.pre /\ last.ds = <<>>)

C10_Witness ==
    /\ last.op = "NSet"
    /\ last.status = UNKNOWN_SOP_INSTANCE
    /\ last.req.attribute_list.PerformedProcedureStepStatus = "COMPLETED"
    /\ last.req.RequestedSOPInstanceUID # None
    /\ \E i \in DOMAIN last.pre : last.pre[i].mpps_instance_uid # None

\* the rows of a table bound to a step-instance identifier
BoundTo(rows, uid) ==
    {i \in DOMAIN rows : uid # None /\ rows[i].mpps_instance_uid = uid}

\* C11: when an N-SET with status S in {COMPLETED, DISCONTINUED} names a
\* step-instance id bound to a worklist record (and no storage call fails),
\* then on return that record's status is S, the handler returns success with
\* a dataset echoing the step-instance id, and the record's step-instance id,
\* accession number and source-message id as well as every other record are
\* unchanged.
C11_NSetSetsStatusEchoesIdKeepsRest ==
    LET uid == last.req.RequestedSOPInstanceUID
        S == last.req.attribute_list.PerformedProcedureStepStatus
    IN (/\ last.op = "NSet"
        /\ last.req.fault = "none"
        /\ S \in Terminal
        /\ BoundTo(last.pre, uid) # {})
       => /\ last.status = SUCCESS
          /\ Len(last.ds) = 1
          /\ last.ds[1].SOPInstanceUID = uid
          /\ DOMAIN worklist = DOMAIN last.pre
          /\ \A i \in DOMAIN last.pre :
                IF i \in BoundTo(last.pre, uid)
                THEN worklist[i] = [last.pre[i] EXCEPT !.status = S]
                ELSE worklist[i] = last.pre[i]

(* ---------------------------------------------------------------------- *)
(* Claims on the image store                                               *)
(* ---------------------------------------------------------------------- *)

\* the rows of stored_instances with an instance identifier
RowsOf(rows, sop_instance_uid) ==
    {i \in DOMAIN rows : rows[i].sop_instance_uid = sop_instance_uid}

\* the C-STORE just answered
StoreRequest == cstore.req[1]

\* the C-STORE just answered left the table, the blob directory and the
\* count of file writes as they were
StoreUntouched ==
    /\ instances = cstore.pre_rows
    /\ files = cstore.pre_files
    /\ writes = cstore.pre_writes

C13_BlobAndRowTogether ==
    \A u \in SopUids :
        (files[ComputeStoragePath(u)] # <<>>) <=> (RowsOf(instances, u) # {})

\* a request is in the part of store_instance from the existence check to
\* the INSERT
InStoreInstance(t) == threads[t].pc \in {"store_file", "insert"}

\* C14: when two C-STORE requests with the same instance identifier are
\* handled concurrently, the check-then-insert sequences of the two never
\* interleave, and once both are answered exactly one of them has written
\* the blob file and inserted the row, the other has seen the row, and both
\* have returned SUCCESS.
C14_SameIdentifierSerialized ==
    \A t1, t2 \in Threads :
        (/\ t1 # t2
         /\ threads[t1].sop_instance_uid # None
         /\ threads[t1].sop_instance_uid = threads[t2].sop_instance_uid
         /\ ~threads[t1].present
         /\ ~threads[t2].present)
        => /\ ~(InStoreInstance(t1) /\ InStoreInstance(t2))
           /\ (threads[t1].pc = "done" /\ threads[t2].pc = "done")
                 => /\ threads[t1].status = SUCCESS
                    /\ threads[t2].status = SUCCESS
                    /\ threads[t1].wrote # threads[t2].wrote

\* a C-STORE violates a gate: the storage class is not one of the two
\* accepted classes, the instance identifier is absent or empty, the patient
\* identifier is absent, a required identifying field is missing, an
\* image-shape field is missing although pixel data is present, or the
\* serialized bytes are too short or lack the marker after the preamble
ViolatesGate(event) ==
    LET ds == event.dataset
        data == DatasetToBytes(ds, event.wire)
    IN \/ event.file_meta.MediaStorageSOPClassUID \notin
             {"DigitalMammographyXRayImageStorageForPresentation",
              "DigitalMammographyXRayImageStorageForProcessing"}
       \/ ds.SOPInstanceUID \in {None, ""}
       \/ ds.PatientID = None
       \/ None \in {ds.SOPInstanceUID, ds.PatientID, ds.StudyInstanceUID,
                    ds.SOPClassUID}
       \/ /\ ds.PixelData # None
          /\ {"Rows", "Columns", "BitsAllocated"} \ ds.image_tags # {}
       \/ data.length < 132
       \/ data.prefix # "DICM"

\* C15: every C-STORE request that violates a gate is answered FAILURE, and
\* no stored_instances row and no blob file is created.
C15_GateViolationStoresNothing ==
    (cstore.op = "CStore" /\ ViolatesGate(StoreRequest))
    => /\ cstore.status = FAILURE
       /\ StoreUntouched

\* an image with pixel data and no Columns element, complete otherwise, was
\* refused
C15_Witness ==
    /\ cstore.op = "CStore"
    /\ cstore.status = FAILURE
    /\ StoreRequest.dataset.PixelData # None
    /\ "Columns" \notin StoreRequest.dataset.image_tags
    /\ FailedGate([StoreRequest EXCEPT
                     !.dataset.image_tags = {"Rows", "Columns", "BitsAllocated"}]) = 0

(* ---------------------------------------------------------------------- *)
(* Claims on the upload engine                                             *)
(* ---------------------------------------------------------------------- *)

\* upload_instance is at work on the image
Busy(sop_instance_uid) ==
    batch.pc # "sleep" /\ Item.sop_instance_uid = sop_instance_uid

\* every upload attempt of the image so far has failed, and none of the
\* store's own writes for it has raised
OnlyFailed(sop_instance_uid) ==
    /\ hist.image[sop_instance_uid].successes = 0
    /\ ~hist.image[sop_instance_uid].store_fault

\* the identifiers in a list of pending uploads
PendingUids(pending) == {pending[j].sop_instance_uid : j \in DOMAIN pending}

\* every upload attempt of the image so far has failed
NeverUploaded(sop_instance_uid) == hist.image[sop_instance_uid].successes = 0

ItemRow == instances[CHOOSE i \in DOMAIN instances :
                        instances[i].sop_instance_uid = Item.sop_instance_uid]

\* C17: in every upload attempt the store write that increments the attempt
\* counter and sets upload_status to UPLOADING is committed before the file
\* is read and before the remote upload call is made: while the file is
\* being read or the remote call is pending or in flight the stored counter
\* already includes this attempt, and no image has had more remote calls
\* than its stored counter says.
C17_CountedBeforeRemoteCall ==
    /\ batch.pc \in {"read_bytes", "upload_dicom", "in_flight"}
          => /\ ItemRow.upload_attempt_count = Item.upload_attempt_count + 1
             /\ ItemRow.upload_status = "UPLOADING"
    /\ \A i \in DOMAIN instances :
          hist.image[instances[i].sop_instance_uid].remote_calls
             <= instances[i].upload_attempt_count

\* the second remote call for an image is in flight
C17_Witness ==
    /\ batch.pc = "in_flight"
    /\ hist.image[Item.sop_instance_uid].remote_calls = 2
    /\ ItemRow.upload_attempt_count = 2

\* the smaller of two numbers
Least(a, b) == IF a < b THEN a ELSE b

\* C18: after each process_batch call that returned: if the batch was
\* non-empty and at least one item failed, the new backoff is
\* initial_backoff when the previous backoff was 0 and
\* min(previous x multiplier, max_backoff) otherwise, raised once per batch
\* however many items failed; if the batch was empty or every item
\* succeeded, the backoff is 0.
C18_BackoffAfterBatch ==
    LET n == Len(batch.pending)
        failures == n - batch.successes
        previous == batch.prev_backoff
    IN (batch.pc = "sleep" /\ batch.outcome = "returned")
       => backoff = IF n > 0 /\ failures > 0
                    THEN IF previous = 0 THEN cfg.initial_backoff
                         ELSE Least(previous * cfg.backoff_multiplier,
                                    cfg.max_backoff)
                    ELSE 0

\* a batch in which both items failed raised a backoff of 1 to 2, one step
C18_Witness ==
    /\ batch.pc = "sleep"
    /\ batch.outcome = "returned"
    /\ Len(batch.pending) = 2
    /\ batch.successes = 0
    /\ batch.prev_backoff = 1
    /\ backoff = 2

\* C19: in every reachable state of the upload engine, for every
\* configuration of initial_backoff, multiplier and max_backoff, the shared
\* backoff delay satisfies 0 <= backoff <= max_backoff.
C19_BackoffWithinMaximum ==
    0 <= backoff /\ backoff <= cfg.max_backoff

\* C20: within one process_batch call upload_instance runs for every item
\* returned by get_pending_uploads: whatever fails while one item is handled,
\* nothing leaves upload_instance as an exception, and process_batch ends by
\* returning after as many upload_instance calls as there were items.
C20_EveryItemAttempted ==
    (batch.pc = "sleep" /\ batch.pending # <<>>)
    => /\ batch.outcome = "returned"
       /\ batch.attempted = Len(batch.pending)

\* C21: once a remote upload call for an instance has returned success, the
\* uploader is never invoked again for that instance, whatever happens to the
\* store write that records the completion.
C21_NoUploadAfterSuccess ==
    [][\A u \in SopUids :
          hist.image[u].acks > 0 =>
              hist'.image[u].remote_calls = hist.image[u].remote_calls]_vars

\* C22: CreateWorklistItem.call answers every action payload with a response
\* whose status is created or error.  With an absent or empty action_id the
\* response is an error and store_worklist_item is not called; when storage
\* raises, the response is an error carrying the action id and the message of
\* the exception; in every error case the table is as it was.
C22_CreateAlwaysAnswers ==
    last.op = "Create" =>
        LET payload == last.req
            response == last.ds[1]
        IN /\ last.status \in {"created", "error"}
           /\ payload.action_id \in {None, ""} =>
                 /\ last.status = "error"
                 /\ response.error = "Missing action_id in payload"
                 /\ response.store_calls = 0
           /\ (payload.action_id \notin {None, ""}
                 /\ payload.fault = "store_worklist_item") =>
                 /\ last.status = "error"
                 /\ response.action_id = payload.action_id
                 /\ response.error = "database is locked"
           /\ last.status = "error" => (worklist = last.pre /\ response.error # None)
           /\ last.status = "created" => response.action_id = payload.action_id

C22_Witness ==
    /\ last.op = "Create"
    /\ last.req.action_id = "ACT1"
    /\ last.req.fault = "store_worklist_item"
    /\ last.status = "error"
    /\ last.pre # <<>>

\* C23: no two worklist records share an accession number; a create action
\* whose accession number is already in the table is answered with an error,
\* adds no record and leaves the table, the status and the step-instance
\* identifier of the existing record included, as it was.
C23_AccessionNumberUnique ==
    /\ \A i, j \in DOMAIN worklist :
          worklist[i].accession_number = worklist[j].accession_number => i = j
    /\ (/\ last.op = "Create"
        /\ \E i \in DOMAIN last.pre :
              last.pre[i].accession_number = last.req.worklist_item.accession_number) =>
          /\ last.status = "error"
          /\ worklist = last.pre

C23_Witness ==
    /\ last.op = "Create"
    /\ last.req.action_id = "ACT1"
    /\ last.req.fault = "none"
    /\ last.status = "error"
    /\ \E i \in DOMAIN last.pre :
          /\ last.pre[i].accession_number = last.req.worklist_item.accession_number
          /\ last.pre[i].status = "COMPLETED"
          /\ last.pre[i].mpps_instance_uid # None
          /\ worklist[i] = last.pre[i]

StatusCodes ==
    {SUCCESS, FAILURE, PENDING, MISSING_ATTRIBUTE, INVALID_ATTRIBUTE,
     DUPLICATE_SOP_INSTANCE, UNKNOWN_SOP_INSTANCE, PROCESSING_FAILURE}

\* C25: every request delivered to the C-FIND, C-STORE, N-CREATE or N-SET
\* handler, also one whose identifier or dataset cannot be read or for which
\* a storage call raises, ends with an explicit status (for C-FIND a terminal
\* status pair as last response) and no exception leaves the handler.
C25_HandlersEndWithStatus ==
    /\ last.op \in {"NCreate", "NSet"} =>
          (~last.raised /\ last.status \in StatusCodes)
    /\ last.op = "CFind" =>
          /\ ~last.raised
          /\ last.responses # <<>>
          /\ IsTerminalPair(last.responses[Len(last.responses)])
    /\ cstore.op = "CStore" => cstore.status \in {SUCCESS, FAILURE}

\* a record satisfies the status argument and the filters of
\* find_worklist_items when an absent or empty filter is no constraint
Satisfies(row, modality, scheduled_date, patient_id, status) ==
    /\ row.status = status
    /\ modality \in {None, "", row.modality}
    /\ scheduled_date \in {None, "", row.scheduled_date}
    /\ patient_id \in {None, "", row.patient_id}

\* the list a C-FIND got from find_worklist_items holds
\* exactly the SCHEDULED records that equal the filters of its identifier
C26_CFindGetsTheMatches ==
    (last.op = "CFind" /\ last.req.fault = "none") =>
        {last.items[j] : j \in DOMAIN last.items} =
            {last.pre[i] : i \in {k \in DOMAIN last.pre :
                Satisfies(last.pre[k],
                          StepFilter(last.req.identifier, "Modality"),
                          StepFilter(last.req.identifier,
                                     "ScheduledProcedureStepStartDate"),
                          last.req.identifier.PatientID, "SCHEDULED")}}

RowIndex(rows, accession_number) ==
    CHOOSE i \in DOMAIN rows : rows[i].accession_number = accession_number

\* a list of records is in ascending order of (scheduled date, scheduled time)
SortedBySchedule(items) ==
    \A j, k \in DOMAIN items :
        j < k =>
            \/ TextRank(items[j].scheduled_date) < TextRank(items[k].scheduled_date)
            \/ /\ items[j].scheduled_date = items[k].scheduled_date
               /\ TextRank(items[j].scheduled_time) <= TextRank(items[k].scheduled_time)

\* C27: the list find_worklist_items returns, and so the PENDING results of a
\* C-FIND, is in ascending order of (scheduled date, scheduled time), and
\* records with the same date and time come in the order of their insertion.
C27_SortedTiesByInsertion ==
    (last.op = "CFind" /\ last.req.fault = "none") =>
        /\ SortedBySchedule(last.items)
        /\ \A j, k \in DOMAIN last.items :
              (/\ j < k
               /\ last.items[j].scheduled_date = last.items[k].scheduled_date
               /\ last.items[j].scheduled_time = last.items[k].scheduled_time) =>
                  RowIndex(last.pre, last.items[j].accession_number)
                     < RowIndex(last.pre, last.items[k].accession_number)

\* the record has no value in a column
NoValue(item, key) == item[key] \in {None, ""}

\* C28: the response dataset a C-FIND builds from a record carries patient
\* identifier, patient name, birth date, accession number and, in its step
\* item, modality, scheduled date and scheduled time; patient sex, study
\* instance UID, study description (with the step description) and procedure
\* code (with the step identifier) are left out whenever the record has no
\* value for them, so that no optional element is there with an empty or null
\* value.
C28_ResponseIsSparse ==
    last.op = "CFind" =>
        \A j \in DOMAIN last.responses :
            last.responses[j].status = PENDING =>
                LET ds == last.responses[j].ds[1]
                    step == ds.ScheduledProcedureStepSequence[1]
                    item == last.items[j]
                IN /\ ds.PatientID = item.patient_id
                   /\ ds.PatientName = item.patient_name
                   /\ ds.PatientBirthDate = item.patient_birth_date
                   /\ ds.AccessionNumber = item.accession_number
                   /\ step.Modality = item.modality
                   /\ step.ScheduledProcedureStepStartDate = item.scheduled_date
                   /\ step.ScheduledProcedureStepStartTime = item.scheduled_time
                   /\ NoValue(item, "patient_sex") => ds.PatientSex = Absent
                   /\ NoValue(item, "study_instance_uid") =>
                         ds.StudyInstanceUID = Absent
                   /\ NoValue(item, "study_description") =>
                         /\ ds.StudyDescription = Absent
                         /\ step.ScheduledProcedureStepDescription = Absent
                   /\ NoValue(item, "procedure_code") =>
                         /\ ds.RequestedProcedureID = Absent
                         /\ step.ScheduledProcedureStepID = Absent
                   /\ \A element \in {ds.PatientSex, ds.StudyInstanceUID,
                                      ds.StudyDescription, ds.RequestedProcedureID,
                                      step.ScheduledProcedureStepDescription,
                                      step.ScheduledProcedureStepID} :
                         element \notin {None, ""}

\* C29: for every row of stored_instances the storage path is the path
\* derived from its instance identifier, and the recorded content hash and
\* file size are the digest and the length of the bytes now at that path,
\* under any interleaving of C-STORE requests, two requests with the same
\* identifier and different bytes included.
C29_RowMatchesBlob ==
    \A i \in DOMAIN instances :
        LET row == instances[i]
            blob == files[row.storage_path]
        IN /\ row.storage_path = ComputeStoragePath(row.sop_instance_uid)
           /\ blob # <<>>
           /\ row.storage_hash = Sha256(blob[1])
           /\ row.file_size = blob[1].length

\* C30: COMPLETED and DISCONTINUED are both terminal: no N-SET and no
\* N-CREATE takes a record from COMPLETED to DISCONTINUED or from DISCONTINUED
\* to COMPLETED; a second N-SET on the same step-instance identifier with the
\* other terminal value leaves the status as it is.
C30_TerminalValueIsFinal ==
    [][\A i \in DOMAIN worklist :
          /\ worklist[i].status = MWLStatus.COMPLETED =>
                worklist'[i].status # MWLStatus.DISCONTINUED
          /\ worklist[i].status = MWLStatus.DISCONTINUED =>
                worklist'[i].status # MWLStatus.COMPLETED]_vars

\* C31: a record that is bound to a step-instance identifier keeps that
\* identifier through every later N-CREATE, whether the request replays
\* the identifier or sends another one for the same accession number, and
\* an N-SET addressed to a bound identifier is resolved to a record (it is
\* not answered unknown-instance).
C31_BindingSurvivesLaterCreates ==
    /\ last.op = "NCreate" =>
          \A i \in DOMAIN last.pre :
              last.pre[i].mpps_instance_uid # None =>
                  worklist[i].mpps_instance_uid = last.pre[i].mpps_instance_uid
    /\ (/\ last.op = "NSet"
        /\ last.req.fault = "none"
        /\ last.req.attribute_list.PerformedProcedureStepStatus \in Terminal
        /\ last.req.RequestedSOPInstanceUID # None
        /\ \E i \in DOMAIN last.pre :
              last.pre[i].mpps_instance_uid = last.req.RequestedSOPInstanceUID)
       => last.status # UNKNOWN_SOP_INSTANCE

\* C32: when the record an N-SET found has been deleted by the time its
\* status update runs, the update hits no row: the N-SET answers
\* processing-failure with no dataset and the table is left as it was.
C32_DeletedBeforeUpdateFails ==
    [][\A t \in Threads :
          (/\ threads[t].pc = "update_status"
           /\ threads'[t].pc # "update_status"
           /\ ~\E i \in DOMAIN worklist :
                 worklist[i].accession_number = threads[t].accession_number)
          => /\ worklist' = worklist
             /\ threads'[t].pc = "done"
             /\ threads'[t].status = PROCESSING_FAILURE
             /\ threads'[t].ds = <<>>]_vars

C32_Witness ==
    \E t \in Threads :
        /\ threads[t].pc = "done"
        /\ threads[t].rowcount = 0
        /\ threads[t].status = PROCESSING_FAILURE
        /\ Len(worklist) = 1

\* C33: for every message the service-bus listener receives exactly one
\* settlement call is issued: complete_message if decoding and
\* process_action returned without raising, abandon_message otherwise, and
\* then the table is left as it was.
C33_ExactlyOneSettlement ==
    last.op = "ServiceBus" =>
        LET text == last.req.text
            returned == /\ text.syntax = "object"
                        /\ text.value[1].action_type \in Actions
        IN /\ Len(last.responses) = 1
           /\ returned <=> last.responses = <<"complete_message">>
           /\ ~returned => /\ last.responses = <<"abandon_message">>
                           /\ worklist = last.pre

\* C39: on every relay client connection that delivers a JSON payload
\* exactly one acknowledgment is sent back, whether or not the action_type
\* is recognized, and no relay message, whatever goes wrong while it is
\* handled, makes an exception leave the listen loop.
C39_OneAcknowledgmentPerPayload ==
    last.op = "Relay" =>
        /\ ~last.raised
        /\ (/\ last.req.accept
            /\ last.req.client[1].event = "message"
            /\ last.req.client[1].text.syntax # "malformed")
           => Len(last.responses) = 1

\* C37: a worklist record has no step-instance identifier exactly when its
\* status is SCHEDULED; an N-SET leaves no record it changed in status
\* IN PROGRESS and changes no record that has no step-instance identifier.
C37_UnboundIffScheduled ==
    /\ \A i \in DOMAIN worklist :
          worklist[i].mpps_instance_uid = None
              <=> worklist[i].status = MWLStatus.SCHEDULED
    /\ last.op = "NSet" =>
          /\ Len(worklist) = Len(last.pre)
          /\ \A i \in DOMAIN last.pre :
                /\ worklist[i] # last.pre[i] =>
                      worklist[i].status # MWLStatus.IN_PROGRESS
                /\ last.pre[i].mpps_instance_uid = None =>
                      worklist[i] = last.pre[i]

C37_Witness ==
    /\ last.op = "NSet"
    /\ last.status = SUCCESS
    /\ \E i, j \in DOMAIN worklist :
          /\ worklist[i] # last.pre[i]
          /\ worklist[i].status \in Terminal
          /\ worklist[j].mpps_instance_uid = None
          /\ worklist[j].status = MWLStatus.SCHEDULED

\* C38: an N-SET that returns a status other than success has changed the
\* status of no worklist record, whatever the source message id of the
\* record it addressed.
C38_FailedNSetChangesNothing ==
    (last.op = "NSet" /\ last.status # SUCCESS) =>
        /\ Len(worklist) = Len(last.pre)
        /\ \A i \in DOMAIN last.pre : worklist[i].status = last.pre[i].status

\* the upload attempts of the image that have ended
Attempts(sop_instance_uid) ==
    hist.image[sop_instance_uid].failures + hist.image[sop_instance_uid].successes

C34_StopEndsTheLoop ==
    /\ [](listener.pc = "process_batch" =>
             /\ listener.limit = listener.batch_size
             /\ Len(batch.pending) <= listener.batch_size)
    /\ [][/\ (~listener.running /\ listener.pc = "while") =>
                listener'.pc \in {"while", "returned"}
          /\ (listener.pc = "process_batch" /\ listener'.pc # "process_batch") =>
                (batch.pc = "sleep" /\ batch' = batch)]_vars
    /\ (listener.pc = "process_batch" /\ ~listener.running)
          ~> (listener.pc = "returned")

\* stop has been called while an upload of the current cycle is in flight
C34_Witness ==
    /\ listener.pc = "process_batch"
    /\ ~listener.running
    /\ batch.pc = "in_flight"
    /\ listener.limit = listener.batch_size

\* C40: while the upload listener runs, an exception that escapes
\* process_batch does not end the polling loop: the listener sleeps the
\* base poll interval and goes on to another cycle, and start returns only
\* after stop; after a cycle that returned normally the sleep is
\* poll_interval plus the backoff that cycle left.
C40_LoopSurvivesExceptions ==
    /\ []((listener.pc = "while" /\ listener.sleep_time # -1) =>
             /\ batch.outcome = "raised" =>
                   listener.sleep_time = listener.poll_interval
             /\ batch.outcome = "returned" =>
                   listener.sleep_time = listener.poll_interval + backoff)
    /\ [](listener.pc = "returned" => ~listener.running)
    /\ [][(listener.pc = "while" /\ listener.running
              /\ listener'.pc # "while") =>
                 listener'.pc = "process_batch"]_vars
    /\ (listener.pc = "process_batch" /\ batch.pc = "sleep"
           /\ batch.outcome = "raised")
          ~> (listener.pc = "while" /\ batch.outcome = "raised")
    /\ (listener.pc = "while" /\ batch.outcome = "raised")
          ~> (listener.pc = "process_batch" \/ ~listener.running)

C40_Witness ==
    /\ listener.pc = "while"
    /\ listener.running
    /\ batch.outcome = "raised"
    /\ backoff > 0
    /\ listener.sleep_time = listener.poll_interval

\* a row of the image is in the table
IsStored(sop_instance_uid) == RowsOf(instances, sop_instance_uid) # {}

\* every row of the image has reached COMPLETE or FAILED
UploadSettled(sop_instance_uid) ==
    \A i \in RowsOf(instances, sop_instance_uid) :
        instances[i].upload_status \in {UploadStatus.COMPLETE, UploadStatus.FAILED}

\* C35: with the polling loop scheduled fairly, every stored image
\* eventually reaches upload_status COMPLETE or FAILED, also when the engine
\* stops after mark_upload_started and is started again; images one of
\* whose storage calls raised are set aside.
C35_EveryImageSettles ==
    \A u \in SopUids :
        IsStored(u) ~> (UploadSettled(u) \/ hist.image[u].store_fault)

====
